---- MODULE Spec2Model ----
(* Differential-testing toolkit of nesium (tools/*.py): the register, APU   *)
(* and NMI trace comparers, the RGB24 frame differ, the 1bpp mask analyser   *)
(* and the palette-index locator, each modelled as one run of its main().    *)
(* A run is one behaviour: Init picks the tool, its command line and which   *)
(* input files exist; file contents are revealed as the code reads them.     *)
EXTENDS Integers, Sequences, FiniteSets, TLC

VARIABLES
    tool,           \* which script runs: "reg", "apu", "nmi", "rgb", "mask", "pal"
    pc,             \* position inside main()
    args,           \* the parsed command line
    files,          \* per input file: "missing", or how its size relates to the expected one
    mesen_events,   \* events parsed from the --mesen trace
    nesium_events,  \* events parsed from the --nesium trace
    nread,          \* lines of the current trace file consumed so far
    frames,         \* the parsed --frames list (frame tools)
    frame_i,        \* 0-based position of main()'s loop in frames
    all_stats,      \* diff_rgb24_frames.main: the FrameDiffStats collected so far
    found_any,      \* find_first_palette_index_diff.main: a mismatch was reported
    bufs,           \* analyze_mask_diff.main: data_a and data_b
    out,            \* lines printed on stdout, in order
    exit,           \* process exit status, -1 while main() has not returned
    fatal           \* the uncaught exception / parser.error that ended the run, or "none"

traceVars == <<mesen_events, nesium_events, nread>>

frameVars == <<frames, frame_i, all_stats, found_any, bufs>>

vars == <<tool, pc, args, files, traceVars, frameVars, out, exit, fatal>>

\* ------------------------------------------------------------------ bounds

\* Lines read from one trace file (skipped lines included).
MaxLines == 2

\* ------------------------------------------------------------ shared values

\* Python's None.
None == [none |-> TRUE]

Min(x, y) == IF x < y THEN x ELSE y
Max(x, y) == IF x > y THEN x ELSE y

\* ------------------------------------------------------------------- text
\* A text is a tuple of one-character strings. The characters that occur in
\* the modelled inputs are decimal digits, hex letters in both cases, "x"
\* (of the 0x prefix) and "z" (not a digit in any base used).

DigitVal ==
    [c \in {"0","1","2","3","4","5","6","7","8","9",
            "a","b","c","d","e","f","A","B","C","D","E","F"} |->
        CASE c = "0" -> 0 [] c = "1" -> 1 [] c = "2" -> 2 [] c = "3" -> 3
          [] c = "4" -> 4 [] c = "5" -> 5 [] c = "6" -> 6 [] c = "7" -> 7
          [] c = "8" -> 8 [] c = "9" -> 9
          [] c \in {"a","A"} -> 10 [] c \in {"b","B"} -> 11
          [] c \in {"c","C"} -> 12 [] c \in {"d","D"} -> 13
          [] c \in {"e","E"} -> 14 [] c \in {"f","F"} -> 15]

IsDigit(c, base) == c \in DOMAIN DigitVal /\ DigitVal[c] < base

AllDigits(t, base) == Len(t) > 0 /\ \A k \in 1..Len(t) : IsDigit(t[k], base)

RECURSIVE DigitsValue(_, _)
DigitsValue(t, base) ==
    IF Len(t) = 0 THEN 0
    ELSE DigitsValue(SubSeq(t, 1, Len(t) - 1), base) * base + DigitVal[t[Len(t)]]

HasHexPrefix(t) == Len(t) >= 2 /\ t[1] = "0" /\ t[2] \in {"x", "X"}

\* Python int(text, base) on the modelled alphabet: base 16 accepts an
\* optional 0x prefix; anything else that is not all digits is a ValueError.
IntBody(t, base) == IF base = 16 /\ HasHexPrefix(t) THEN SubSeq(t, 3, Len(t)) ELSE t
IntRaises(t, base) == ~AllDigits(IntBody(t, base), base)
IntValue(t, base) == DigitsValue(IntBody(t, base), base)

\* A trace line after the split on "|" and on the first "=" of each segment:
\* its leading tag and the key -> value mapping of its key=value segments.
\* The values of src and ev, only ever compared against literals, are strings;
\* the values of the numeric fields are texts.
HasKey(fields, k) == k \in DOMAIN fields

\* ------------------------------------------------- compare_ppu_reg_traces.py

NumericFields == <<"cpu_cycle", "frame", "scanline", "dot", "addr", "value", "v", "t", "x">>

valid_fields == {NumericFields[k] : k \in 1..Len(NumericFields)}

StrictTimingFields == <<"cpu_cycle", "frame", "scanline", "dot", "addr", "value", "v", "t">>

\* Faulty variant: a text that does not parse becomes -2.
get_int_unparsable_apart(fields, name, base) ==
    IF ~HasKey(fields, name) THEN -1
    ELSE IF IntRaises(fields[name], base) THEN -2
    ELSE IntValue(fields[name], base)

\* parse_line.get_int: -1 when the key is absent or its text does not parse.
get_int(fields, name, base) ==
    IF ~HasKey(fields, name) THEN -1
    ELSE IF IntRaises(fields[name], base) THEN -1
    ELSE IntValue(fields[name], base)

\* parse_line: None for a line without the tag or whose ev is not "write".
parse_line(line) ==
    IF line.tag # "PPUREG" THEN None
    ELSE IF ~HasKey(line.fields, "ev") \/ line.fields["ev"] # "write" THEN None
    ELSE [raw |-> line,
          src |-> IF HasKey(line.fields, "src") THEN line.fields["src"] ELSE "",
          ev |-> line.fields["ev"],
          cpu_cycle |-> get_int(line.fields, "cpu_cycle", 10),
          frame |-> get_int(line.fields, "frame", 10),
          scanline |-> get_int(line.fields, "scanline", 10),
          dot |-> get_int(line.fields, "dot", 10),
          addr |-> get_int(line.fields, "addr", 16),
          value |-> get_int(line.fields, "value", 16),
          v |-> get_int(line.fields, "v", 16),
          t |-> get_int(line.fields, "t", 16),
          x |-> get_int(line.fields, "x", 16)]

\* One iteration of load_events' loop: the event list after `line`.
load_events_step(events, line) ==
    LET evt == parse_line(line)
    IN  IF evt # None THEN Append(events, evt) ELSE events

\* Faulty variant: the table's "value" entry reads the address.
event_field_value_addr_for_value(e, f) ==
    CASE f = "cpu_cycle" -> e.cpu_cycle
      [] f = "frame" -> e.frame
      [] f = "scanline" -> e.scanline
      [] f = "dot" -> e.dot
      [] f = "addr" -> e.addr
      [] f = "value" -> e.addr
      [] f = "v" -> e.v
      [] f = "t" -> e.t
      [] f = "x" -> e.x

event_field_value(e, f) ==
    CASE f = "cpu_cycle" -> e.cpu_cycle
      [] f = "frame" -> e.frame
      [] f = "scanline" -> e.scanline
      [] f = "dot" -> e.dot
      [] f = "addr" -> e.addr
      [] f = "value" -> e.value
      [] f = "v" -> e.v
      [] f = "t" -> e.t
      [] f = "x" -> e.x

\* Faulty variant: only the first selected field is compared.
EventsDifferFirstFieldOnly(a, b, fields, i) ==
    Len(fields) > 0
    /\ event_field_value(a[i + 1], fields[1]) # event_field_value(b[i + 1], fields[1])

\* The test of first_mismatch's loop body at 0-based index i.
EventsDiffer(a, b, fields, i) ==
    \E k \in 1..Len(fields) :
        event_field_value(a[i + 1], fields[k]) # event_field_value(b[i + 1], fields[k])

\* first_mismatch's for loop from index i on: the first differing index below n, or n.
RECURSIVE ScanFrom(_, _, _, _, _)
ScanFrom(a, b, fields, i, n) ==
    IF i >= n THEN n
    ELSE IF EventsDiffer(a, b, fields, i) THEN i
    ELSE ScanFrom(a, b, fields, i + 1, n)

\* Faulty variant: a trace that merely ends early is not a divergence.
first_mismatch_ignoring_length(a, b, fields) ==
    LET n == Min(Len(a), Len(b))
        i == ScanFrom(a, b, fields, 0, n)
    IN  IF i < n THEN [idx |-> i, a |-> a[i + 1], b |-> b[i + 1]]
        ELSE [idx |-> -1, a |-> None, b |-> None]

first_mismatch(a, b, fields) ==
    LET n == Min(Len(a), Len(b))
        i == ScanFrom(a, b, fields, 0, n)
    IN  IF i < n THEN [idx |-> i, a |-> a[i + 1], b |-> b[i + 1]]
        ELSE IF Len(a) # Len(b)
             THEN [idx |-> n,
                   a |-> IF n < Len(a) THEN a[n + 1] ELSE None,
                   b |-> IF n < Len(b) THEN b[n + 1] ELSE None]
        ELSE [idx |-> -1, a |-> None, b |-> None]

\* print_window: the header, then one line per index of the clamped range.
print_window(label, events, center, radius) ==
    LET lo == Max(0, center - radius)
        hi == Min(Len(events), center + radius + 1)
    IN  <<[kind |-> "window", label |-> label, lo |-> lo,
           hi |-> Min(Len(events) - 1, center + radius)]>>
        \o [k \in 1..Max(0, hi - lo) |->
              [kind |-> "window_event", label |-> label, i |-> lo + k - 1,
               mark |-> (lo + k - 1 = center), event |-> events[lo + k]]]

\* The base line of the modelled register traces and its one-field variants.
RegBaseFields ==
    [k \in valid_fields \cup {"ev", "src"} |->
        CASE k = "ev" -> "write"
          [] k = "src" -> "mesen"
          [] k = "cpu_cycle" -> <<"1", "0">>
          [] k = "addr" -> <<"2", "0", "0", "6">>
          [] k = "value" -> <<"3", "F">>
          [] OTHER -> <<"0">>]

Without(fields, k) == [j \in DOMAIN fields \ {k} |-> fields[j]]

RegLines ==
    { [tag |-> "PPUREG", fields |-> RegBaseFields],
      [tag |-> "PPUREG", fields |-> [RegBaseFields EXCEPT !["value"] = <<"3", "E">>]],
      [tag |-> "PPUREG", fields |-> [RegBaseFields EXCEPT !["x"] = <<"1">>]],
      [tag |-> "PPUREG", fields |-> [RegBaseFields EXCEPT !["addr"] = <<"z", "z">>]],
      [tag |-> "PPUREG", fields |-> Without(RegBaseFields, "value")],
      [tag |-> "PPUREG", fields |-> Without(RegBaseFields, "addr")],
      [tag |-> "PPUREG", fields |-> [RegBaseFields EXCEPT !["ev"] = "read"]],
      [tag |-> "OTHER", fields |-> RegBaseFields] }

\* --fields after the split on ",": tokens already stripped, "" for an empty one.
RegFieldArgs ==
    { <<"addr", "value">>, <<"value">>, <<"x">>, <<"frame">>, <<"">>, <<"value", "bogus">> }

\* The command lines: any --fields without --strict-timing, and --strict-timing
\* with the default --fields.
RegArgs ==
    [fields : RegFieldArgs, strict_timing : {FALSE}, window : {0, 1}]
    \cup [fields : {<<"addr", "value">>}, strict_timing : {TRUE}, window : {0, 1}]

\* main, lines 140-143: the comparison field list.
RegFields(a) ==
    IF a.strict_timing THEN StrictTimingFields
    ELSE SelectSeq(a.fields, LAMBDA f : f # "")

RegInvalid(fields) == \E k \in 1..Len(fields) : fields[k] \notin valid_fields


\* ------------------------------------- diff_apu_trace.py, diff_nmi_trace.py

\* Optional[str] None, which no text equals (a text holds single characters).
NoneText == <<"None">>

\* str.lower on the modelled alphabet.
LowerChar(c) ==
    CASE c = "A" -> "a" [] c = "B" -> "b" [] c = "C" -> "c" [] c = "D" -> "d"
      [] c = "E" -> "e" [] c = "F" -> "f" [] c = "X" -> "x" [] OTHER -> c

Lower(t) == [k \in 1..Len(t) |-> LowerChar(t[k])]

HexChars == <<"0","1","2","3","4","5","6","7","8","9","A","B","C","D","E","F">>

\* format(n, "X") for n >= 0.
RECURSIVE ToHexUpper(_)
ToHexUpper(n) ==
    IF n < 16 THEN <<HexChars[n + 1]>>
    ELSE ToHexUpper(n \div 16) \o <<HexChars[(n % 16) + 1]>>

Zeros(width) == [k \in 1..width |-> "0"]

\* Faulty variant: the digits above the width are cut off.
FormatHex_cut_to_width(n, width) ==
    LET digits == ToHexUpper(n)
        padded == Zeros(Max(0, width - Len(digits))) \o digits
    IN  SubSeq(padded, Len(padded) - width + 1, Len(padded))

\* format(n, "0{width}X"): zero-padded on the left up to width, never cut.
FormatHex(n, width) ==
    LET digits == ToHexUpper(n)
    IN  Zeros(Max(0, width - Len(digits))) \o digits

\* normalize_hex, lines 33-35: the text handed to int(). The modelled
\* alphabet has no white space, so strip() changes nothing.
HexBody(value) ==
    LET v == Lower(value)
    IN  IF HasHexPrefix(v) THEN SubSeq(v, 3, Len(v)) ELSE v

\* int(value, 16) raising ValueError out of normalize_hex.
normalize_hex_raises(value) == HexBody(value) # <<>> /\ IntRaises(HexBody(value), 16)

normalize_hex(value, width) ==
    IF HexBody(value) = <<>> THEN Zeros(width)
    ELSE FormatHex(IntValue(HexBody(value), 16), width)

\* dict.get(key, default)
Get(fields, k, default) == IF HasKey(fields, k) THEN fields[k] ELSE default

\* The result of one iteration of a parse loop: the event list, and whether
\* an exception left the loop.
Parsed(events) == [raises |-> FALSE, events |-> events]
Raised(events) == [raises |-> TRUE, events |-> events]

\* Faulty variant: the ordinal is the number of lines read so far, not of events kept.
apu_parse_step_line_ordinal(events, line, include_read_mem) ==
    LET allowed_events == {"read", "write"} \cup (IF include_read_mem THEN {"read_mem"} ELSE {})
        ev == Get(line.fields, "ev", "")
        addr_raw == Get(line.fields, "addr", <<>>)
        value_raw == Get(line.fields, "value", <<"0", "0">>)
    IN  IF line.tag # "APUTRACE" THEN Parsed(events)
        ELSE IF ev \notin allowed_events THEN Parsed(events)
        ELSE IF addr_raw = <<>> THEN Parsed(events)
        ELSE IF normalize_hex_raises(addr_raw) THEN Raised(events)
        ELSE IF normalize_hex_raises(value_raw) THEN Raised(events)
        ELSE Parsed(Append(events,
                [index |-> nread,
                 ev |-> ev,
                 addr |-> normalize_hex(addr_raw, 4),
                 value |-> normalize_hex(value_raw, 2),
                 raw |-> line,
                 fields |-> line.fields]))

\* diff_apu_trace.parse_events, one iteration of the loop over the lines.
apu_parse_step(events, line, include_read_mem) ==
    LET allowed_events == {"read", "write"} \cup (IF include_read_mem THEN {"read_mem"} ELSE {})
        ev == Get(line.fields, "ev", "")
        addr_raw == Get(line.fields, "addr", <<>>)
        value_raw == Get(line.fields, "value", <<"0", "0">>)
    IN  IF line.tag # "APUTRACE" THEN Parsed(events)
        ELSE IF ev \notin allowed_events THEN Parsed(events)
        ELSE IF addr_raw = <<>> THEN Parsed(events)
        ELSE IF normalize_hex_raises(addr_raw) THEN Raised(events)
        ELSE IF normalize_hex_raises(value_raw) THEN Raised(events)
        ELSE Parsed(Append(events,
                [index |-> Len(events),
                 ev |-> ev,
                 addr |-> normalize_hex(addr_raw, 4),
                 value |-> normalize_hex(value_raw, 2),
                 raw |-> line,
                 fields |-> line.fields]))

\* diff_nmi_trace.normalize_event; "" stands for None.
normalize_event(src, ev) ==
    IF ev \in {"read", "write"} THEN ev
    ELSE IF src = "mesen" /\ ev = "nmi_event" THEN "nmi_take"
    ELSE IF src = "nesium" /\ ev = "nmi_take" THEN "nmi_take"
    ELSE ""

\* Faulty variant: a missing value defaults to "00", as in diff_apu_trace.
nmi_parse_step_default_value(events, line) ==
    LET src == Get(line.fields, "src", "")
        ev == Get(line.fields, "ev", "")
        norm_ev == normalize_event(src, ev)
        addr == Get(line.fields, "addr", NoneText)
        value == Get(line.fields, "value", <<"0", "0">>)
        needs_pair == norm_ev \in {"read", "write"}
    IN  IF line.tag # "NMITRACE" THEN Parsed(events)
        ELSE IF norm_ev = "" THEN Parsed(events)
        ELSE IF needs_pair /\ addr = NoneText THEN Parsed(events)
        ELSE IF needs_pair /\ normalize_hex_raises(addr) THEN Raised(events)
        ELSE IF needs_pair /\ normalize_hex_raises(value) THEN Raised(events)
        ELSE Parsed(Append(events,
                [index |-> Len(events),
                 ev |-> norm_ev,
                 addr |-> IF needs_pair THEN normalize_hex(addr, 4) ELSE NoneText,
                 value |-> IF needs_pair THEN normalize_hex(value, 2) ELSE NoneText,
                 raw |-> line,
                 fields |-> line.fields]))

\* diff_nmi_trace.parse_events, one iteration of the loop over the lines.
nmi_parse_step(events, line) ==
    LET src == Get(line.fields, "src", "")
        ev == Get(line.fields, "ev", "")
        norm_ev == normalize_event(src, ev)
        addr == Get(line.fields, "addr", NoneText)
        value == Get(line.fields, "value", NoneText)
        needs_pair == norm_ev \in {"read", "write"}
    IN  IF line.tag # "NMITRACE" THEN Parsed(events)
        ELSE IF norm_ev = "" THEN Parsed(events)
        ELSE IF needs_pair /\ (addr = NoneText \/ value = NoneText) THEN Parsed(events)
        ELSE IF needs_pair /\ normalize_hex_raises(addr) THEN Raised(events)
        ELSE IF needs_pair /\ normalize_hex_raises(value) THEN Raised(events)
        ELSE Parsed(Append(events,
                [index |-> Len(events),
                 ev |-> norm_ev,
                 addr |-> IF needs_pair THEN normalize_hex(addr, 4) ELSE NoneText,
                 value |-> IF needs_pair THEN normalize_hex(value, 2) ELSE NoneText,
                 raw |-> line,
                 fields |-> line.fields]))

\* diff_nmi_trace.key_of, and the tuple compare_events builds in diff_apu_trace.
key_of(event) == <<event.ev, event.addr, event.value>>

\* Faulty variant: the range ends at center + radius, exclusive.
print_context_short_end(name, events, center, radius) ==
    LET start == Max(0, center - radius)
        end == Min(Len(events), center + radius)
    IN  <<[kind |-> "context", name |-> name, start |-> start, end |-> end]>>
        \o [k \in 1..Max(0, end - start) |->
              [kind |-> "context_event", name |-> name, i |-> start + k - 1,
               mark |-> (start + k - 1 = center), event |-> events[start + k]]]

\* print_context of both tools: the header, then one line per index of the range.
print_context(name, events, center, radius) ==
    LET start == Max(0, center - radius)
        end == Min(Len(events), center + radius + 1)
    IN  <<[kind |-> "context", name |-> name, start |-> start, end |-> end]>>
        \o [k \in 1..Max(0, end - start) |->
              [kind |-> "context_event", name |-> name, i |-> start + k - 1,
               mark |-> (start + k - 1 = center), event |-> events[start + k]]]

\* compare_events' for loop from idx on: the first index whose keys differ, or common.
RECURSIVE KeyScanFrom(_, _, _, _)
KeyScanFrom(m, n, idx, common) ==
    IF idx >= common THEN common
    ELSE IF key_of(m[idx + 1]) # key_of(n[idx + 1]) THEN idx
    ELSE KeyScanFrom(m, n, idx + 1, common)

\* compare_events of both tools: the lines printed and the value returned.
compare_events(m_events, n_events, context) ==
    LET common == Min(Len(m_events), Len(n_events))
        idx == KeyScanFrom(m_events, n_events, 0, common)
    IN  IF idx < common
        THEN [code |-> 1,
              out |-> <<[kind |-> "first_mismatch", index |-> idx,
                         mesen |-> key_of(m_events[idx + 1]),
                         nesium |-> key_of(n_events[idx + 1])]>>
                      \o print_context("mesen", m_events, idx, context)
                      \o print_context("nesium", n_events, idx, context)]
        ELSE IF Len(m_events) # Len(n_events)
        THEN [code |-> 1,
              out |-> <<[kind |-> "count_mismatch", mesen |-> Len(m_events),
                         nesium |-> Len(n_events)]>>]
        ELSE [code |-> 0, out |-> <<[kind |-> "no_mismatch", common |-> common]>>]

ApuBaseFields ==
    [k \in {"src", "ev", "addr", "value"} |->
        CASE k = "src" -> "mesen"
          [] k = "ev" -> "write"
          [] k = "addr" -> <<"4", "0", "1", "5">>
          [] k = "value" -> <<"3", "F">>]

ApuLines ==
    { [tag |-> "APUTRACE", fields |-> ApuBaseFields],
      [tag |-> "APUTRACE", fields |-> [ApuBaseFields EXCEPT !["value"] = <<"3", "e">>]],
      [tag |-> "APUTRACE", fields |-> [ApuBaseFields EXCEPT !["value"] = <<"z">>]],
      [tag |-> "APUTRACE", fields |-> Without(ApuBaseFields, "value")],
      [tag |-> "APUTRACE", fields |-> Without(ApuBaseFields, "addr")],
      [tag |-> "APUTRACE", fields |-> [ApuBaseFields EXCEPT !["addr"] = <<>>]],
      [tag |-> "APUTRACE", fields |-> [ApuBaseFields EXCEPT !["addr"] = <<"z", "z">>]],
      [tag |-> "APUTRACE", fields |-> [ApuBaseFields EXCEPT !["ev"] = "read_mem"]],
      [tag |-> "APUTRACE", fields |-> [ApuBaseFields EXCEPT !["ev"] = "frame"]],
      [tag |-> "OTHER", fields |-> ApuBaseFields] }

ApuArgs == [include_read_mem : BOOLEAN, context : {0, 1}]

NmiBaseFields ==
    [k \in {"src", "ev", "addr", "value"} |->
        CASE k = "src" -> "mesen"
          [] k = "ev" -> "write"
          [] k = "addr" -> <<"2", "0", "0", "2">>
          [] k = "value" -> <<"8", "0">>]

NmiLines ==
    { [tag |-> "NMITRACE", fields |-> NmiBaseFields],
      [tag |-> "NMITRACE", fields |-> [NmiBaseFields EXCEPT !["value"] = <<"0", "x", "0">>]],
      [tag |-> "NMITRACE", fields |-> [NmiBaseFields EXCEPT !["value"] = <<"z">>]],
      [tag |-> "NMITRACE", fields |-> Without(NmiBaseFields, "value")],
      [tag |-> "NMITRACE", fields |-> Without(NmiBaseFields, "addr")],
      [tag |-> "NMITRACE", fields |-> [NmiBaseFields EXCEPT !["addr"] = <<>>]],
      [tag |-> "NMITRACE", fields |-> [NmiBaseFields EXCEPT !["addr"] = <<"z", "z">>]],
      [tag |-> "NMITRACE", fields |-> [NmiBaseFields EXCEPT !["ev"] = "nmi_event"]],
      [tag |-> "NMITRACE", fields |-> [NmiBaseFields EXCEPT !["ev"] = "nmi_take"]],
      [tag |-> "NMITRACE", fields |-> [NmiBaseFields EXCEPT !["ev"] = "nmi_take", !["src"] = "nesium"]],
      [tag |-> "OTHER", fields |-> NmiBaseFields] }

NmiArgs == [context : {0, 1}]

\* ------------------------------------------------- the trace tools' main()

TraceTools == {"reg", "apu", "nmi"}

TraceFiles == [{"mesen", "nesium"} -> {"missing", "ok"}]

TraceInit ==
    /\ tool \in TraceTools
    /\ pc = "load_mesen"
    /\ args \in CASE tool = "reg" -> RegArgs
                  [] tool = "apu" -> ApuArgs
                  [] tool = "nmi" -> NmiArgs
    /\ files \in TraceFiles
    /\ mesen_events = <<>>
    /\ nesium_events = <<>>
    /\ nread = 0
    /\ frames = <<>>
    /\ frame_i = 0
    /\ all_stats = <<>>
    /\ found_any = FALSE
    /\ bufs = <<>>
    /\ out = <<>>
    /\ exit = -1
    /\ fatal = "none"

\* The lines a trace file of the running tool is made of.
TraceLines ==
    CASE tool = "reg" -> RegLines
      [] tool = "apu" -> ApuLines
      [] tool = "nmi" -> NmiLines

\* One iteration of the running tool's parse loop.
ParseStep(events, line) ==
    CASE tool = "reg" -> Parsed(load_events_step(events, line))
      [] tool = "apu" -> apu_parse_step(events, line, args.include_read_mem)
      [] tool = "nmi" -> nmi_parse_step(events, line)

\* Path.read_text / Path.open on a trace file that does not exist.
TraceLoadMissing ==
    /\ tool \in TraceTools
    /\ \/ pc = "load_mesen" /\ files["mesen"] = "missing"
       \/ pc = "load_nesium" /\ files["nesium"] = "missing"
    /\ pc' = "done"
    /\ fatal' = "FileNotFoundError"
    /\ exit' = 1
    /\ UNCHANGED <<frameVars, tool, args, files, mesen_events, nesium_events, nread, out>>

\* The parse loop reads the next line of the mesen trace.
TraceLoadMesenLine ==
    /\ tool \in TraceTools /\ pc = "load_mesen" /\ files["mesen"] = "ok"
    /\ nread < MaxLines
    /\ \E line \in TraceLines :
        LET r == ParseStep(mesen_events, line)
        IN  /\ mesen_events' = r.events
            /\ IF r.raises
               THEN pc' = "done" /\ fatal' = "ValueError" /\ exit' = 1
               ELSE UNCHANGED <<pc, fatal, exit>>
    /\ nread' = nread + 1
    /\ UNCHANGED <<frameVars, tool, args, files, nesium_events, out>>

\* The mesen trace is exhausted.
TraceLoadMesenEnd ==
    /\ tool \in TraceTools /\ pc = "load_mesen" /\ files["mesen"] = "ok"
    /\ pc' = "load_nesium"
    /\ nread' = 0
    /\ UNCHANGED <<frameVars, tool, args, files, mesen_events, nesium_events, out, exit, fatal>>

\* The parse loop reads the next line of the nesium trace.
TraceLoadNesiumLine ==
    /\ tool \in TraceTools /\ pc = "load_nesium" /\ files["nesium"] = "ok"
    /\ nread < MaxLines
    /\ \E line \in TraceLines :
        LET r == ParseStep(nesium_events, line)
        IN  /\ nesium_events' = r.events
            /\ IF r.raises
               THEN pc' = "done" /\ fatal' = "ValueError" /\ exit' = 1
               ELSE UNCHANGED <<pc, fatal, exit>>
    /\ nread' = nread + 1
    /\ UNCHANGED <<frameVars, tool, args, files, mesen_events, out>>

\* The nesium trace is exhausted: on to the field selection (reg) or the report.
TraceLoadNesiumEnd ==
    /\ tool \in TraceTools /\ pc = "load_nesium" /\ files["nesium"] = "ok"
    /\ pc' = IF tool = "reg" THEN "fields" ELSE "compare"
    /\ nread' = 0
    /\ UNCHANGED <<frameVars, tool, args, files, mesen_events, nesium_events, out, exit, fatal>>

\* compare_ppu_reg_traces.main, lines 140-153: validate the field selection,
\* then print the header.
RegSelectFields ==
    /\ tool = "reg" /\ pc = "fields"
    /\ LET fields == RegFields(args)
       IN  IF RegInvalid(fields) \/ Len(fields) = 0
           THEN /\ pc' = "done"
                /\ fatal' = "parser.error"
                /\ exit' = 2
                /\ out' = out
           ELSE /\ pc' = "compare"
                /\ out' = out \o <<[kind |-> "count", label |-> "mesen", n |-> Len(mesen_events)],
                                   [kind |-> "count", label |-> "nesium", n |-> Len(nesium_events)],
                                   [kind |-> "fields", fields |-> fields]>>
                /\ UNCHANGED <<fatal, exit>>
    /\ UNCHANGED <<frameVars, tool, args, files, mesen_events, nesium_events, nread>>

\* compare_ppu_reg_traces.main, lines 155-178: locate the first divergence and report it.
RegCompare ==
    /\ tool = "reg" /\ pc = "compare"
    /\ LET r == first_mismatch(mesen_events, nesium_events, RegFields(args))
       IN  IF r.idx < 0
           THEN /\ out' = Append(out, [kind |-> "match"])
                /\ exit' = 0
           ELSE /\ out' = out
                     \o <<[kind |-> "divergence", index |-> r.idx, a |-> r.a, b |-> r.b]>>
                     \o print_window("mesen", mesen_events, r.idx, args.window)
                     \o print_window("nesium", nesium_events, r.idx, args.window)
                /\ exit' = 1
    /\ pc' = "done"
    /\ UNCHANGED <<frameVars, tool, args, files, mesen_events, nesium_events, nread, fatal>>

\* diff_apu_trace.main / diff_nmi_trace.main after both parses: the "Loaded"
\* line, then compare_events, whose value is the exit status.
TraceCompare ==
    /\ tool \in {"apu", "nmi"} /\ pc = "compare"
    /\ LET r == compare_events(mesen_events, nesium_events, args.context)
       IN  /\ out' = out \o <<[kind |-> "loaded", mesen |-> Len(mesen_events),
                               nesium |-> Len(nesium_events)]>> \o r.out
           /\ exit' = r.code
    /\ pc' = "done"
    /\ UNCHANGED <<frameVars, tool, args, files, mesen_events, nesium_events, nread, fatal>>

TraceNext ==
    \/ TraceLoadMissing
    \/ TraceLoadMesenLine
    \/ TraceLoadMesenEnd
    \/ TraceLoadNesiumLine
    \/ TraceLoadNesiumEnd
    \/ RegSelectFields
    \/ RegCompare
    \/ TraceCompare

\* --------------------------------------------------- diff_rgb24_frames.py

BYTES_PER_PIXEL == 3

\* most_common(10) and the [:10] slices of compute_frame_diff.
TopN == 10

\* bbox = None.
NoBBox == <<>>

\* A float quotient num / den, kept exact.
Frac(num, den) == [num |-> num, den |-> den]

Abs(x) == IF x < 0 THEN -x ELSE x

\* sorted(set(...)) of integers.
RECURSIVE SortedSeq(_)
SortedSeq(S) ==
    IF S = {} THEN <<>>
    ELSE LET m == CHOOSE x \in S : \A y \in S : x <= y
         IN  <<m>> \o SortedSeq(S \ {m})

\* --frames after the split on "," and strip(): the tokens that are not empty.
FrameTokens(tokens) == SelectSeq(tokens, LAMBDA t : t # <<>>)

\* int(token) raising ValueError for some token.
FrameTokenRaises(tokens) ==
    \E k \in 1..Len(FrameTokens(tokens)) : IntRaises(FrameTokens(tokens)[k], 10)

FrameSet(tokens) ==
    {IntValue(FrameTokens(tokens)[k], 10) : k \in 1..Len(FrameTokens(tokens))}

\* diff_rgb24_frames.parse_frames_csv: ValueError below two distinct frames.
rgb_parse_frames_raises(tokens) ==
    FrameTokenRaises(tokens) \/ Cardinality(FrameSet(tokens)) < 2

parse_frames_csv(tokens) == SortedSeq(FrameSet(tokens))

\* Faulty variant: only a dump that is too short is rejected.
read_rgb24_raises_short_only(size, expected_bytes) == size < expected_bytes

\* read_rgb24 raising ValueError on a file of `size` bytes.
read_rgb24_raises(size, expected_bytes) == size # expected_bytes

\* iter_pixels: the 0-based pixel k of a byte buffer.
PixelAt(buf, k) ==
    <<buf[k * BYTES_PER_PIXEL + 1], buf[k * BYTES_PER_PIXEL + 2], buf[k * BYTES_PER_PIXEL + 3]>>

\* The pixels iter_pixels yields: range(0, len(buf), 3).
PixelCount(buf) == (Len(buf) + BYTES_PER_PIXEL - 1) \div BYTES_PER_PIXEL

\* delta_counts[delta] += 1 on a Counter, which keeps first-insertion order.
CounterAdd(counter, key) ==
    IF \E k \in 1..Len(counter) : counter[k][1] = key
    THEN [k \in 1..Len(counter) |->
            IF counter[k][1] = key THEN <<key, counter[k][2] + 1>> ELSE counter[k]]
    ELSE Append(counter, <<key, 1>>)

\* Faulty variant: the lower bounds of the bbox start at 0.
DiffStart_zero_min(width, height) ==
    [pixels_diff |-> 0,
     sum_abs_r |-> 0, sum_abs_g |-> 0, sum_abs_b |-> 0,
     max_abs_r |-> 0, max_abs_g |-> 0, max_abs_b |-> 0,
     delta_counts |-> <<>>,
     row_counts |-> [k \in 1..height |-> 0],
     col_counts |-> [k \in 1..width |-> 0],
     min_x |-> 0, min_y |-> 0, max_x |-> -1, max_y |-> -1]

\* compute_frame_diff, lines 72-88: the accumulators before the loop.
DiffStart(width, height) ==
    [pixels_diff |-> 0,
     sum_abs_r |-> 0, sum_abs_g |-> 0, sum_abs_b |-> 0,
     max_abs_r |-> 0, max_abs_g |-> 0, max_abs_b |-> 0,
     delta_counts |-> <<>>,
     row_counts |-> [k \in 1..height |-> 0],
     col_counts |-> [k \in 1..width |-> 0],
     min_x |-> width, min_y |-> height, max_x |-> -1, max_y |-> -1]

\* Faulty variant: the delta histogram is keyed by the absolute deltas.
DiffPixel_abs_delta_key(acc, pa, pb, idx, width) ==
    LET dr == pb[1] - pa[1]
        dg == pb[2] - pa[2]
        db == pb[3] - pa[3]
        y == idx \div width
        x == idx % width
    IN  IF dr = 0 /\ dg = 0 /\ db = 0 THEN acc
        ELSE [pixels_diff |-> acc.pixels_diff + 1,
              sum_abs_r |-> acc.sum_abs_r + Abs(dr),
              sum_abs_g |-> acc.sum_abs_g + Abs(dg),
              sum_abs_b |-> acc.sum_abs_b + Abs(db),
              max_abs_r |-> Max(acc.max_abs_r, Abs(dr)),
              max_abs_g |-> Max(acc.max_abs_g, Abs(dg)),
              max_abs_b |-> Max(acc.max_abs_b, Abs(db)),
              delta_counts |-> CounterAdd(acc.delta_counts, <<Abs(dr), Abs(dg), Abs(db)>>),
              row_counts |-> [acc.row_counts EXCEPT ![y + 1] = @ + 1],
              col_counts |-> [acc.col_counts EXCEPT ![x + 1] = @ + 1],
              min_x |-> Min(acc.min_x, x), min_y |-> Min(acc.min_y, y),
              max_x |-> Max(acc.max_x, x), max_y |-> Max(acc.max_y, y)]

\* compute_frame_diff, lines 91-123: the loop body for pixel idx.
DiffPixel(acc, pa, pb, idx, width) ==
    LET dr == pb[1] - pa[1]
        dg == pb[2] - pa[2]
        db == pb[3] - pa[3]
        y == idx \div width
        x == idx % width
    IN  IF dr = 0 /\ dg = 0 /\ db = 0 THEN acc
        ELSE [pixels_diff |-> acc.pixels_diff + 1,
              sum_abs_r |-> acc.sum_abs_r + Abs(dr),
              sum_abs_g |-> acc.sum_abs_g + Abs(dg),
              sum_abs_b |-> acc.sum_abs_b + Abs(db),
              max_abs_r |-> Max(acc.max_abs_r, Abs(dr)),
              max_abs_g |-> Max(acc.max_abs_g, Abs(dg)),
              max_abs_b |-> Max(acc.max_abs_b, Abs(db)),
              delta_counts |-> CounterAdd(acc.delta_counts, <<dr, dg, db>>),
              row_counts |-> [acc.row_counts EXCEPT ![y + 1] = @ + 1],
              col_counts |-> [acc.col_counts EXCEPT ![x + 1] = @ + 1],
              min_x |-> Min(acc.min_x, x), min_y |-> Min(acc.min_y, y),
              max_x |-> Max(acc.max_x, x), max_y |-> Max(acc.max_y, y)]

\* compute_frame_diff's loop over the zipped pixels from idx on.
RECURSIVE DiffLoop(_, _, _, _, _, _)
DiffLoop(acc, a, b, width, idx, n) ==
    IF idx >= n THEN acc
    ELSE DiffLoop(DiffPixel(acc, PixelAt(a, idx), PixelAt(b, idx), idx, width),
                  a, b, width, idx + 1, n)

\* Faulty variant: x goes before the entries of its own count.
RECURSIVE InsertByCount_ties_newest_first(_, _)
InsertByCount_ties_newest_first(sorted, x) ==
    IF sorted = <<>> THEN <<x>>
    ELSE IF x[2] >= Head(sorted)[2] THEN <<x>> \o sorted
    ELSE <<Head(sorted)>> \o InsertByCount_ties_newest_first(Tail(sorted), x)

\* Stable insertion of x into a sequence sorted by descending count (x[2]):
\* after every entry whose count is at least x's.
RECURSIVE InsertByCount(_, _)
InsertByCount(sorted, x) ==
    IF sorted = <<>> THEN <<x>>
    ELSE IF x[2] > Head(sorted)[2] THEN <<x>> \o sorted
    ELSE <<Head(sorted)>> \o InsertByCount(Tail(sorted), x)

\* Counter.most_common's order: descending count, ties in insertion order.
RECURSIVE SortByCount(_)
SortByCount(items) ==
    IF items = <<>> THEN <<>>
    ELSE InsertByCount(SortByCount(SubSeq(items, 1, Len(items) - 1)), items[Len(items)])

\* The sort key (-count, index) of top_rows and top_cols.
RankBefore(x, y) == x[2] > y[2] \/ (x[2] = y[2] /\ x[1] < y[1])

RECURSIVE InsertByRank(_, _)
InsertByRank(sorted, x) ==
    IF sorted = <<>> THEN <<x>>
    ELSE IF RankBefore(x, Head(sorted)) THEN <<x>> \o sorted
    ELSE <<Head(sorted)>> \o InsertByRank(Tail(sorted), x)

\* sorted(entries, key=lambda x: (-x[1], x[0]))
RECURSIVE SortByRank(_)
SortByRank(items) ==
    IF items = <<>> THEN <<>>
    ELSE InsertByRank(SortByRank(SubSeq(items, 1, Len(items) - 1)), items[Len(items)])

\* seq[:n]
Take(seq, n) == SubSeq(seq, 1, Min(n, Len(seq)))

\* ((i, c) for i, c in enumerate(counts) if c > 0)
NonZeroEntries(counts) ==
    SelectSeq([k \in 1..Len(counts) |-> <<k - 1, counts[k]>>], LAMBDA e : e[2] > 0)

\* Faulty variant: the bbox tuple is built even when no pixel differs.
BBoxOf_always(acc) == <<acc.min_x, acc.min_y, acc.max_x, acc.max_y>>

\* compute_frame_diff, lines 126-132: bbox is None when no pixel differs.
BBoxOf(acc) ==
    IF acc.pixels_diff = 0 THEN NoBBox
    ELSE <<acc.min_x, acc.min_y, acc.max_x, acc.max_y>>

compute_frame_diff(frame, a, b, width, height) ==
    LET acc == DiffLoop(DiffStart(width, height), a, b, width, 0,
                        Min(PixelCount(a), PixelCount(b)))
        pixels_total == width * height
        differs == acc.pixels_diff # 0
    IN  [frame |-> frame,
         pixels_total |-> pixels_total,
         pixels_diff |-> acc.pixels_diff,
         pct_diff |-> IF pixels_total # 0 THEN Frac(acc.pixels_diff * 100, pixels_total)
                      ELSE Frac(0, 1),
         mean_abs_r |-> IF differs THEN Frac(acc.sum_abs_r, acc.pixels_diff) ELSE Frac(0, 1),
         mean_abs_g |-> IF differs THEN Frac(acc.sum_abs_g, acc.pixels_diff) ELSE Frac(0, 1),
         mean_abs_b |-> IF differs THEN Frac(acc.sum_abs_b, acc.pixels_diff) ELSE Frac(0, 1),
         max_abs_r |-> acc.max_abs_r,
         max_abs_g |-> acc.max_abs_g,
         max_abs_b |-> acc.max_abs_b,
         bbox |-> BBoxOf(acc),
         top_deltas |-> Take(SortByCount(acc.delta_counts), TopN),
         top_rows |-> Take(SortByRank(NonZeroEntries(acc.row_counts)), TopN),
         top_cols |-> Take(SortByRank(NonZeroEntries(acc.col_counts)), TopN)]

\* sum(f(s) for s in all_stats)
RECURSIVE SumOver(_, _)
SumOver(stats, field) ==
    IF stats = <<>> THEN 0
    ELSE (IF field = "pixels_total" THEN Head(stats).pixels_total ELSE Head(stats).pixels_diff)
         + SumOver(Tail(stats), field)

\* The --width/--height pairs of the modelled runs.
Geometries == {[width |-> 1, height |-> 1], [width |-> 2, height |-> 2]}

\* The --frames values of the modelled runs: "60,180", "180,60,,60", "60", "60,z".
RgbFrameArgs ==
    { << <<"6", "0">>, <<"1", "8", "0">> >>,
      << <<"1", "8", "0">>, <<"6", "0">>, <<>>, <<"6", "0">> >>,
      << <<"6", "0">> >>,
      << <<"6", "0">>, <<"z">> >> }

RgbArgs == {[frames |-> f, width |-> g.width, height |-> g.height] :
                f \in RgbFrameArgs, g \in Geometries}

\* What a run finds of one dump file: whether it exists and its byte length.
DumpFiles(expected) ==
    { [exists |-> FALSE, size |-> 0],
      [exists |-> TRUE, size |-> expected],
      [exists |-> TRUE, size |-> expected - 1],
      [exists |-> TRUE, size |-> expected + BYTES_PER_PIXEL] }

\* The (mesen, nesium) pixel pairs the modelled dumps are made of.
PixelPairs ==
    { << <<0, 0, 0>>, <<0, 0, 0>> >>,
      << <<0, 0, 0>>, <<16, 0, 255>> >>,
      << <<16, 16, 16>>, <<0, 16, 17>> >> }

\* The bytes of a dump given its pixels.
DumpBytes(pixels) ==
    [k \in 1..(Len(pixels) * BYTES_PER_PIXEL) |->
        pixels[((k - 1) \div BYTES_PER_PIXEL) + 1][((k - 1) % BYTES_PER_PIXEL) + 1]]

\* The pairs of dumps of na and nb whole pixels.
DumpPairs(na, nb) ==
    {[a |-> DumpBytes([k \in 1..na |-> pp[k][1]]), b |-> DumpBytes([k \in 1..nb |-> pp[k][2]])] :
        pp \in [1..Max(na, nb) -> PixelPairs]}

FrameInit(t, argset) ==
    /\ tool = t
    /\ pc = "start"
    /\ args \in argset
    /\ files = <<>>
    /\ mesen_events = <<>>
    /\ nesium_events = <<>>
    /\ nread = 0
    /\ frames = <<>>
    /\ frame_i = 0
    /\ all_stats = <<>>
    /\ found_any = FALSE
    /\ bufs = <<>>
    /\ out = <<>>
    /\ exit = -1
    /\ fatal = "none"

RgbInit == FrameInit("rgb", RgbArgs)

\* An uncaught exception: the traceback, exit status 1.
Raise(exc) ==
    /\ pc' = "done"
    /\ fatal' = exc
    /\ exit' = 1

\* main, line 212: parse --frames.
RgbParseFrames ==
    /\ tool = "rgb" /\ pc = "start"
    /\ IF rgb_parse_frames_raises(args.frames)
       THEN Raise("ValueError") /\ UNCHANGED frames
       ELSE /\ frames' = parse_frames_csv(args.frames)
            /\ pc' = "frame"
            /\ UNCHANGED <<exit, fatal>>
    /\ UNCHANGED <<traceVars, tool, args, files, frame_i, all_stats, found_any, bufs, out>>

\* main, lines 219-228: a frame whose dumps are missing or of the wrong size.
RgbFrameFatal ==
    /\ tool = "rgb" /\ pc = "frame" /\ frame_i < Len(frames)
    /\ LET expected_bytes == args.width * args.height * BYTES_PER_PIXEL
       IN  \E fm \in DumpFiles(expected_bytes), fn \in DumpFiles(expected_bytes) :
            /\ files' = [mesen |-> fm, nesium |-> fn]
            /\ \/ ~fm.exists /\ Raise("FileNotFoundError")
               \/ fm.exists /\ ~fn.exists /\ Raise("FileNotFoundError")
               \/ /\ fm.exists /\ fn.exists
                  /\ read_rgb24_raises(fm.size, expected_bytes)
                  /\ Raise("ValueError")
               \/ /\ fm.exists /\ fn.exists
                  /\ ~read_rgb24_raises(fm.size, expected_bytes)
                  /\ read_rgb24_raises(fn.size, expected_bytes)
                  /\ Raise("ValueError")
    /\ UNCHANGED <<traceVars, tool, args, frames, frame_i, all_stats, found_any, bufs, out>>

\* main, lines 219-231: a frame whose two dumps load; diff them and print the stats.
RgbFrameDiff ==
    /\ tool = "rgb" /\ pc = "frame" /\ frame_i < Len(frames)
    /\ LET expected_bytes == args.width * args.height * BYTES_PER_PIXEL
       IN  \E fm \in DumpFiles(expected_bytes), fn \in DumpFiles(expected_bytes) :
            /\ fm.exists /\ fn.exists
            /\ ~read_rgb24_raises(fm.size, expected_bytes)
            /\ ~read_rgb24_raises(fn.size, expected_bytes)
            /\ files' = [mesen |-> fm, nesium |-> fn]
            /\ \E d \in DumpPairs(fm.size \div BYTES_PER_PIXEL, fn.size \div BYTES_PER_PIXEL) :
                LET stats == compute_frame_diff(frames[frame_i + 1], d.a, d.b,
                                                args.width, args.height)
                IN  /\ all_stats' = Append(all_stats, stats)
                    /\ out' = Append(out, [kind |-> "frame_stats", stats |-> stats])
    /\ frame_i' = frame_i + 1
    /\ UNCHANGED <<traceVars, tool, pc, args, frames, found_any, bufs, exit, fatal>>

\* main, lines 233-241: the TOTAL line; the exit status is 0.
RgbTotal ==
    /\ tool = "rgb" /\ pc = "frame" /\ frame_i = Len(frames)
    /\ out' = Append(out, [kind |-> "total",
                           total_pixels |-> SumOver(all_stats, "pixels_total"),
                           total_diff |-> SumOver(all_stats, "pixels_diff"),
                           n |-> Len(all_stats)])
    /\ exit' = 0
    /\ pc' = "done"
    /\ UNCHANGED <<traceVars, tool, args, files, frames, frame_i, all_stats, found_any, bufs, fatal>>

RgbNext ==
    \/ RgbParseFrames
    \/ RgbFrameFatal
    \/ RgbFrameDiff
    \/ RgbTotal

\* ----------------------------------------------------- analyze_mask_diff.py

\* Faulty variant: the bits of a byte are taken most-significant first.
BitOf_msb_first(byte, bit) == (byte \div (2 ^ (7 - bit))) % 2

\* (byte >> bit) & 1
BitOf(byte, bit) == (byte \div (2 ^ bit)) % 2

\* unpack_mask's loops from bit `bit` of the 0-based byte k on; bit_index is
\* the next pixel to fill. The break leaves the inner loop only, so the
\* remaining bytes are still visited (and fill nothing).
RECURSIVE UnpackFrom(_, _, _, _, _, _)
UnpackFrom(pixels, data, k, bit, bit_index, total) ==
    IF k >= Len(data) THEN pixels
    ELSE IF bit >= 8 \/ bit_index >= total
         THEN UnpackFrom(pixels, data, k + 1, 0, bit_index, total)
    ELSE UnpackFrom([pixels EXCEPT ![bit_index + 1] = BitOf(data[k + 1], bit)],
                    data, k, bit + 1, bit_index + 1, total)

unpack_mask(data, width, height) ==
    UnpackFrom([p \in 1..(width * height) |-> 0], data, 0, 0, 0, width * height)

\* main, line 53: the 0-based positions at which the two masks differ, ascending.
DiffPositions(pixels_a, pixels_b, total) ==
    SelectSeq([k \in 1..total |-> k - 1], LAMBDA i : pixels_a[i + 1] # pixels_b[i + 1])

\* main, lines 60-76: the loop over diff_positions from its k-th entry on.
RECURSIVE MaskBoxLoop(_, _, _, _)
MaskBoxLoop(acc, diff_positions, k, width) ==
    IF k > Len(diff_positions) THEN acc
    ELSE LET y == diff_positions[k] \div width
             x == diff_positions[k] % width
         IN  MaskBoxLoop([row_counts |-> [acc.row_counts EXCEPT ![y + 1] = @ + 1],
                          min_x |-> Min(acc.min_x, x), max_x |-> Max(acc.max_x, x),
                          min_y |-> Min(acc.min_y, y), max_y |-> Max(acc.max_y, y)],
                         diff_positions, k + 1, width)

\* main, lines 52-87: what is printed once both masks are unpacked.
mask_report(pixels_a, pixels_b, a) ==
    LET total == a.width * a.height
        diff_positions == DiffPositions(pixels_a, pixels_b, total)
        acc == MaskBoxLoop([row_counts |-> [k \in 1..a.height |-> 0],
                            min_x |-> a.width, max_x |-> -1,
                            min_y |-> a.height, max_y |-> -1],
                           diff_positions, 1, a.width)
        nonzero_rows == NonZeroEntries(acc.row_counts)
    IN  <<[kind |-> "mask_diff", total_pixels |-> total, diff_pixels |-> Len(diff_positions)]>>
        \o (IF Len(diff_positions) = 0 THEN <<>>
            ELSE <<[kind |-> "mask_bbox", min_x |-> acc.min_x, max_x |-> acc.max_x,
                    min_y |-> acc.min_y, max_y |-> acc.max_y],
                   [kind |-> "mask_rows", rows_with_diff |-> Len(nonzero_rows),
                    top_rows |-> Take(SortByRank(nonzero_rows), a.top_rows)]>>)

\* The command lines of the modelled runs: 3x2 (6 pixels in 1 byte, two bits
\* unused) and 4x4 (16 pixels in 2 bytes); --top-rows 20 (the default) or 1.
MaskArgs ==
    {[width |-> g.width, height |-> g.height, top_rows |-> n] :
        g \in {[width |-> 3, height |-> 2], [width |-> 4, height |-> 4]}, n \in {20, 1}}

\* The bytes the modelled masks are made of: none set, pixel 5, pixel 6, all.
MaskBytes == {0, 32, 64, 255}

\* The modelled mask files: 0, 1 or 2 bytes long.
MaskData == {<<>>} \cup {<<x>> : x \in MaskBytes} \cup {<<x, y>> : x \in MaskBytes, y \in MaskBytes}

MaskInit == FrameInit("mask", MaskArgs)

\* main, lines 37-38: read_bytes on a mask file that does not exist.
MaskReadMissing ==
    /\ tool = "mask" /\ pc = "start"
    /\ \E fa \in BOOLEAN, fb \in BOOLEAN :
        /\ ~(fa /\ fb)
        /\ files' = [a |-> [exists |-> fa], b |-> [exists |-> fb]]
    /\ Raise("FileNotFoundError")
    /\ UNCHANGED <<traceVars, tool, args, frames, frame_i, all_stats, found_any, bufs, out>>

\* main, lines 37-38: both masks are read.
MaskRead ==
    /\ tool = "mask" /\ pc = "start"
    /\ \E da \in MaskData, db \in MaskData :
        /\ bufs' = [a |-> da, b |-> db]
        /\ files' = [a |-> [exists |-> TRUE], b |-> [exists |-> TRUE]]
    /\ pc' = "check"
    /\ UNCHANGED <<traceVars, tool, args, frames, frame_i, all_stats, found_any, out, exit, fatal>>

\* main, lines 39-87: the size checks, the unpacking and the report.
MaskCheck ==
    /\ tool = "mask" /\ pc = "check"
    /\ LET expected_size == (args.width * args.height + 7) \div 8
       IN  IF Len(bufs.a) # Len(bufs.b)
           THEN /\ out' = Append(out, [kind |-> "size_mismatch", a |-> Len(bufs.a), b |-> Len(bufs.b)])
                /\ exit' = 1
           ELSE /\ out' = out
                     \o (IF Len(bufs.a) # expected_size
                         THEN <<[kind |-> "warning", size |-> Len(bufs.a), expected |-> expected_size]>>
                         ELSE <<>>)
                     \o mask_report(unpack_mask(bufs.a, args.width, args.height),
                                    unpack_mask(bufs.b, args.width, args.height), args)
                /\ exit' = 0
    /\ pc' = "done"
    /\ UNCHANGED <<traceVars, tool, args, files, frames, frame_i, all_stats, found_any, bufs, fatal>>

MaskNext ==
    \/ MaskReadMissing
    \/ MaskRead
    \/ MaskCheck

\* ------------------------------------------ find_first_palette_index_diff.py

RGB24_BPP == 3

\* Mesen2 RP2C02 palette, lines 27-92.
MESEN_2C02_64 ==
    <<<<102, 102, 102>>, <<0, 42, 136>>, <<20, 18, 167>>, <<59, 0, 164>>,
       <<92, 0, 126>>, <<110, 0, 64>>, <<108, 6, 0>>, <<86, 29, 0>>,
       <<51, 53, 0>>, <<11, 72, 0>>, <<0, 82, 0>>, <<0, 79, 8>>,
       <<0, 64, 77>>, <<0, 0, 0>>, <<0, 0, 0>>, <<0, 0, 0>>,
       <<173, 173, 173>>, <<21, 95, 217>>, <<66, 64, 255>>, <<117, 39, 254>>,
       <<160, 26, 204>>, <<183, 30, 123>>, <<181, 49, 32>>, <<153, 78, 0>>,
       <<107, 109, 0>>, <<56, 135, 0>>, <<12, 147, 0>>, <<0, 143, 50>>,
       <<0, 124, 141>>, <<0, 0, 0>>, <<0, 0, 0>>, <<0, 0, 0>>,
       <<255, 254, 255>>, <<100, 176, 255>>, <<146, 144, 255>>, <<198, 118, 255>>,
       <<243, 106, 255>>, <<254, 110, 204>>, <<254, 129, 112>>, <<234, 158, 34>>,
       <<188, 190, 0>>, <<136, 216, 0>>, <<92, 228, 48>>, <<69, 224, 130>>,
       <<72, 205, 222>>, <<79, 79, 79>>, <<0, 0, 0>>, <<0, 0, 0>>,
       <<255, 254, 255>>, <<192, 223, 255>>, <<211, 210, 255>>, <<232, 200, 255>>,
       <<251, 194, 255>>, <<254, 196, 234>>, <<254, 204, 197>>, <<247, 216, 165>>,
       <<228, 229, 148>>, <<207, 239, 150>>, <<189, 244, 171>>, <<179, 243, 204>>,
       <<181, 235, 242>>, <<184, 184, 184>>, <<0, 0, 0>>, <<0, 0, 0>> >>

\* One channel after k multiplications by 0.84 and the final int(): for every
\* channel value 0..255 the float product truncates to this integer quotient
\* (k = 1: c * 0.84; k = 2: c * 0.84 * 0.84), and the clamp to [0, 255]
\* leaves it unchanged.
Attenuate(c, k) ==
    CASE k = 0 -> c
      [] k = 1 -> (c * 84) \div 100
      [] k = 2 -> (c * 7056) \div 10000

\* Faulty variant: only low nibble 0x0F is exempt from attenuation.
apply_emphasis_exempt_0F_only(rgb, color_index, emphasis) ==
    LET e == emphasis % 8
        bit0 == e % 2
        bit1 == (e \div 2) % 2
        bit2 == (e \div 4) % 2
    IN  IF e = 0 \/ (color_index % 16) > 14 THEN rgb
        ELSE <<Attenuate(rgb[1], bit1 + bit2),
               Attenuate(rgb[2], bit0 + bit2),
               Attenuate(rgb[3], bit0 + bit1)>>

apply_emphasis(rgb, color_index, emphasis) ==
    LET e == emphasis % 8
        bit0 == e % 2
        bit1 == (e \div 2) % 2
        bit2 == (e \div 4) % 2
    IN  IF e = 0 \/ (color_index % 16) > 13 THEN rgb
        ELSE <<Attenuate(rgb[1], bit1 + bit2),
               Attenuate(rgb[2], bit0 + bit2),
               Attenuate(rgb[3], bit0 + bit1)>>

\* The (idx, emph) pairs in the order build_inverse_rgb_map visits them.
PalettePairs == [k \in 1..512 |-> <<(k - 1) \div 8, (k - 1) % 8>>]

\* The RGB build_inverse_rgb_map computes for the pair p.
PairRGB(p) == apply_emphasis(MESEN_2C02_64[p[1] + 1], p[1], p[2])

\* Faulty variant: a later pair replaces the list stored under its RGB.
build_inverse_rgb_map_last_only ==
    [rgb \in {PairRGB(PalettePairs[k]) : k \in 1..512} |->
        LET l == SelectSeq(PalettePairs, LAMBDA p : PairRGB(p) = rgb)
        IN  <<l[Len(l)]>>]

\* build_inverse_rgb_map: each generated RGB to the pairs that generate it, in
\* the order they were appended.
build_inverse_rgb_map ==
    [rgb \in {PairRGB(PalettePairs[k]) : k \in 1..512} |->
        SelectSeq(PalettePairs, LAMBDA p : PairRGB(p) = rgb)]

\* inverse.get(rgb); the empty list stands for None (both are falsy).
InverseGet(inverse, rgb) == IF rgb \in DOMAIN inverse THEN inverse[rgb] ELSE <<>>

\* Faulty variant: a pair passes once its index is the index of some candidate.
InCandidates_index_only(candidates, pair) ==
    \E k \in 1..Len(candidates) : candidates[k][1] = pair[1]

\* pair in candidates
InCandidates(candidates, pair) == \E k \in 1..Len(candidates) : candidates[k] = pair

\* load_rgb24 / load_plane raising ValueError on a file of `size` bytes.
load_rgb24_raises(size, width, height) == size # width * height * RGB24_BPP
load_plane_raises(size, width, height) == size # width * height

\* Faulty variant: the reason is palette_index when the reported emphasis is the
\* emphasis of no candidate.
RECURSIVE PalScanFrom_reason_by_emphasis(_, _, _, _, _, _, _, _, _, _)
PalScanFrom_reason_by_emphasis(frame, mesen_rgb24, nesium_idx, nesium_emph, inverse, width, i, unknown_colors, idx_mismatches, emph_mismatches) ==
    IF i >= Len(nesium_idx)
    THEN [mismatch |-> None, unknown_colors |-> unknown_colors,
          idx_mismatches |-> idx_mismatches, emph_mismatches |-> emph_mismatches]
    ELSE LET rgb == <<mesen_rgb24[i * 3 + 1], mesen_rgb24[i * 3 + 2], mesen_rgb24[i * 3 + 3]>>
             candidates == InverseGet(inverse, rgb)
             actual_idx == nesium_idx[i + 1] % 64
             actual_emph == nesium_emph[i + 1] % 8
             expected_idxs == {candidates[k][1] : k \in 1..Len(candidates)}
             is_idx == actual_emph \notin {candidates[k][2] : k \in 1..Len(candidates)}
         IN  IF candidates = <<>>
             THEN PalScanFrom_reason_by_emphasis(frame, mesen_rgb24, nesium_idx, nesium_emph, inverse, width, i + 1,
                              unknown_colors + 1, idx_mismatches, emph_mismatches)
             ELSE IF InCandidates(candidates, <<actual_idx, actual_emph>>)
             THEN PalScanFrom_reason_by_emphasis(frame, mesen_rgb24, nesium_idx, nesium_emph, inverse, width, i + 1,
                              unknown_colors, idx_mismatches, emph_mismatches)
             ELSE [mismatch |-> [frame |-> frame, pixel_index |-> i,
                                 x |-> i % width, y |-> i \div width,
                                 mesen_rgb |-> rgb, candidates |-> candidates,
                                 actual_idx |-> actual_idx, actual_emph |-> actual_emph,
                                 reason |-> IF is_idx THEN "palette_index" ELSE "emphasis_bits"],
                   unknown_colors |-> unknown_colors,
                   idx_mismatches |-> idx_mismatches + (IF is_idx THEN 1 ELSE 0),
                   emph_mismatches |-> emph_mismatches + (IF is_idx THEN 0 ELSE 1)]

\* find_first_mismatch's loop from pixel i on, with the counters so far.
RECURSIVE PalScanFrom(_, _, _, _, _, _, _, _, _, _)
PalScanFrom(frame, mesen_rgb24, nesium_idx, nesium_emph, inverse, width, i, unknown_colors, idx_mismatches, emph_mismatches) ==
    IF i >= Len(nesium_idx)
    THEN [mismatch |-> None, unknown_colors |-> unknown_colors,
          idx_mismatches |-> idx_mismatches, emph_mismatches |-> emph_mismatches]
    ELSE LET rgb == <<mesen_rgb24[i * 3 + 1], mesen_rgb24[i * 3 + 2], mesen_rgb24[i * 3 + 3]>>
             candidates == InverseGet(inverse, rgb)
             actual_idx == nesium_idx[i + 1] % 64
             actual_emph == nesium_emph[i + 1] % 8
             expected_idxs == {candidates[k][1] : k \in 1..Len(candidates)}
             is_idx == actual_idx \notin expected_idxs
         IN  IF candidates = <<>>
             THEN PalScanFrom(frame, mesen_rgb24, nesium_idx, nesium_emph, inverse, width, i + 1,
                              unknown_colors + 1, idx_mismatches, emph_mismatches)
             ELSE IF InCandidates(candidates, <<actual_idx, actual_emph>>)
             THEN PalScanFrom(frame, mesen_rgb24, nesium_idx, nesium_emph, inverse, width, i + 1,
                              unknown_colors, idx_mismatches, emph_mismatches)
             ELSE [mismatch |-> [frame |-> frame, pixel_index |-> i,
                                 x |-> i % width, y |-> i \div width,
                                 mesen_rgb |-> rgb, candidates |-> candidates,
                                 actual_idx |-> actual_idx, actual_emph |-> actual_emph,
                                 reason |-> IF is_idx THEN "palette_index" ELSE "emphasis_bits"],
                   unknown_colors |-> unknown_colors,
                   idx_mismatches |-> idx_mismatches + (IF is_idx THEN 1 ELSE 0),
                   emph_mismatches |-> emph_mismatches + (IF is_idx THEN 0 ELSE 1)]

find_first_mismatch(frame, mesen_rgb24, nesium_idx, nesium_emph, inverse, width) ==
    PalScanFrom(frame, mesen_rgb24, nesium_idx, nesium_emph, inverse, width, 0, 0, 0, 0)

\* find_first_palette_index_diff.parse_frames_csv: ValueError on an empty list.
pal_parse_frames_raises(tokens) == FrameTokenRaises(tokens) \/ FrameSet(tokens) = {}

\* The --frames values of the modelled runs: "60" (the default), "180,60", "", "z".
PalFrameArgs ==
    { << <<"6", "0">> >>,
      << <<"1", "8", "0">>, <<"6", "0">> >>,
      << <<>> >>,
      << <<"z">> >> }

PalArgs == {[frames |-> f, width |-> g.width, height |-> g.height] :
                f \in PalFrameArgs, g \in {[width |-> 1, height |-> 1], [width |-> 2, height |-> 1]}}

\* The pixels the modelled Mesen dumps are made of: palette colour 0x01 plain
\* and under emphasis 1, and a colour no (index, emphasis) pair generates.
PalMesenPixels == {<<0, 42, 136>>, <<0, 35, 114>>, <<1, 2, 3>>}

\* The bytes of the modelled index planes (0x41 has a bit above the low six).
PalIdxBytes == {1, 2, 65}

\* The bytes of the modelled emphasis planes (0x09 has a bit above the low three).
PalEmphBytes == {0, 1, 9}

PalInputs(n) ==
    {[rgb |-> DumpBytes(px), idx |-> ix, emph |-> em] :
        px \in [1..n -> PalMesenPixels], ix \in [1..n -> PalIdxBytes], em \in [1..n -> PalEmphBytes]}

\* What a run finds of one frame's three files.
PalFiles(width, height) ==
    [mesen : DumpFiles(width * height * RGB24_BPP),
     idx : {[exists |-> FALSE, size |-> 0], [exists |-> TRUE, size |-> width * height],
            [exists |-> TRUE, size |-> width * height * RGB24_BPP]},
     emph : {[exists |-> FALSE, size |-> 0], [exists |-> TRUE, size |-> width * height],
             [exists |-> TRUE, size |-> width * height + 1]}]

PalInit == FrameInit("pal", PalArgs)

\* main, line 245: parse --frames.
PalParseFrames ==
    /\ tool = "pal" /\ pc = "start"
    /\ IF pal_parse_frames_raises(args.frames)
       THEN Raise("ValueError") /\ UNCHANGED frames
       ELSE /\ frames' = parse_frames_csv(args.frames)
            /\ pc' = "frame"
            /\ UNCHANGED <<exit, fatal>>
    /\ UNCHANGED <<traceVars, tool, args, files, frame_i, all_stats, found_any, bufs, out>>

\* The first check of main, lines 253-262, that fails for the files f, or "none".
PalFrameError(f, width, height) ==
    IF ~f.mesen.exists \/ ~f.idx.exists \/ ~f.emph.exists THEN "FileNotFoundError"
    ELSE IF load_rgb24_raises(f.mesen.size, width, height) THEN "ValueError"
    ELSE IF load_plane_raises(f.idx.size, width, height) THEN "ValueError"
    ELSE IF load_plane_raises(f.emph.size, width, height) THEN "ValueError"
    ELSE "none"

\* main, lines 250-262: a frame with a file missing or of the wrong size.
PalFrameFatal ==
    /\ tool = "pal" /\ pc = "frame" /\ frame_i < Len(frames)
    /\ \E f \in PalFiles(args.width, args.height) :
        /\ PalFrameError(f, args.width, args.height) # "none"
        /\ files' = f
        /\ Raise(PalFrameError(f, args.width, args.height))
    /\ UNCHANGED <<traceVars, tool, args, frames, frame_i, all_stats, found_any, bufs, out>>

\* main, lines 250-301: a frame whose three files load; scan it and report.
PalFrameScan ==
    /\ tool = "pal" /\ pc = "frame" /\ frame_i < Len(frames)
    /\ \E f \in PalFiles(args.width, args.height) :
        /\ PalFrameError(f, args.width, args.height) = "none"
        /\ files' = f
    /\ \E d \in PalInputs(args.width * args.height) :
        LET r == find_first_mismatch(frames[frame_i + 1], d.rgb, d.idx, d.emph,
                                     build_inverse_rgb_map, args.width)
        IN  /\ out' = Append(out, [kind |-> "pal_frame", frame |-> frames[frame_i + 1],
                                   mismatch |-> r.mismatch,
                                   unknown_colors |-> r.unknown_colors,
                                   idx_mismatches |-> r.idx_mismatches,
                                   emph_mismatches |-> r.emph_mismatches])
            /\ found_any' = (found_any \/ r.mismatch # None)
    /\ frame_i' = frame_i + 1
    /\ UNCHANGED <<traceVars, tool, pc, args, frames, all_stats, bufs, exit, fatal>>

\* main, line 303: the exit status once every frame is scanned.
PalDone ==
    /\ tool = "pal" /\ pc = "frame" /\ frame_i = Len(frames)
    /\ exit' = IF found_any THEN 1 ELSE 0
    /\ pc' = "done"
    /\ UNCHANGED <<traceVars, tool, args, files, frames, frame_i, all_stats, found_any, bufs, out, fatal>>

PalNext ==
    \/ PalParseFrames
    \/ PalFrameFatal
    \/ PalFrameScan
    \/ PalDone

\* ------------------------------------------------------------ specification

Init == TraceInit \/ RgbInit \/ MaskInit \/ PalInit

Next == TraceNext \/ RgbNext \/ MaskNext \/ PalNext

Spec == Init /\ [][Next]_vars

\* ------------------------------------------------ the functions on their own
\* Each function of the tools called directly on inputs drawn from bounded
\* sets: `tool` names the function, `args` and `bufs` hold its arguments, and
\* `out` collects what the calls return.

\* The state before a direct call of the function t.
CallInit(t) ==
    /\ tool = t
    /\ pc = "call"
    /\ files = <<>>
    /\ mesen_events = <<>>
    /\ nesium_events = <<>>
    /\ nread = 0
    /\ frames = <<>>
    /\ frame_i = 0
    /\ all_stats = <<>>
    /\ found_any = FALSE
    /\ out = <<>>
    /\ exit = -1
    /\ fatal = "none"

\* The geometries of the direct calls of compute_frame_diff.
DiffGeometries == Geometries \cup {[width |-> 3, height |-> 2]}

\* compute_frame_diff on two buffers of width * height pixels each.
DiffInit ==
    /\ CallInit("compute_frame_diff")
    /\ \E g \in DiffGeometries :
        /\ args = [frame |-> 60, width |-> g.width, height |-> g.height]
        /\ bufs \in DumpPairs(g.width * g.height, g.width * g.height)

\* Geometries with more than ten rows or columns.
WideGeometries == {[width |-> 12, height |-> 1], [width |-> 1, height |-> 12],
                   [width |-> 2, height |-> 11], [width |-> 11, height |-> 2]}

\* The red byte of pixel k of the second buffer of a wide pair; the first
\* buffer holds red 6 everywhere, green and blue are 0 in both. The deltas
\* rise with k, fall with k, cycle through three values, repeat with gaps of
\* equal pixels, or are one value after three equal pixels.
WidePatterns == {"rising", "falling", "cycle", "gaps", "single"}

WideRed(pattern, k) ==
    CASE pattern = "rising" -> (k % 12) + 1
      [] pattern = "falling" -> 12 - (k % 12)
      [] pattern = "cycle" -> (k % 3) + 7
      [] pattern = "gaps" -> IF k % 4 = 0 THEN 6 ELSE ((k * 7) % 5) + 1
      [] pattern = "single" -> IF k < 3 THEN 6 ELSE 7

WidePairs(n) ==
    {[a |-> DumpBytes([k \in 1..n |-> <<6, 0, 0>>]),
      b |-> DumpBytes([k \in 1..n |-> <<WideRed(pattern, k - 1), 0, 0>>])] :
        pattern \in WidePatterns}

\* compute_frame_diff on buffers with more than ten rows, columns or deltas.
DiffWideInit ==
    /\ CallInit("compute_frame_diff")
    /\ \E g \in WideGeometries :
        /\ args = [frame |-> 60, width |-> g.width, height |-> g.height]
        /\ bufs \in WidePairs(g.width * g.height)

\* compute_frame_diff(frame, a, b, width, height)
DiffCall ==
    /\ tool = "compute_frame_diff" /\ pc = "call"
    /\ out' = <<compute_frame_diff(args.frame, bufs.a, bufs.b, args.width, args.height)>>
    /\ pc' = "swap"
    /\ UNCHANGED <<traceVars, frameVars, tool, args, files, exit, fatal>>

\* compute_frame_diff(frame, b, a, width, height): the same buffers swapped.
DiffCallSwapped ==
    /\ tool = "compute_frame_diff" /\ pc = "swap"
    /\ out' = Append(out, compute_frame_diff(args.frame, bufs.b, bufs.a, args.width, args.height))
    /\ pc' = "done"
    /\ UNCHANGED <<traceVars, frameVars, tool, args, files, exit, fatal>>

\* The bytes of the masks unpacked directly: single pixels (0, 2, 5), pairs of
\* pixels, bits 6 and 7 (unused in a 3x2 mask), all bits, none.
UnpackBytes == {0, 1, 4, 32, 36, 64, 96, 128, 255}

\* unpack_mask and the report on two masks of the expected length.
MaskCallInit ==
    /\ CallInit("mask_report")
    /\ \/ /\ args = [width |-> 3, height |-> 2, top_rows |-> 20]
          /\ bufs \in {[a |-> <<x>>, b |-> <<y>>] : x \in UnpackBytes, y \in UnpackBytes}
       \/ /\ args = [width |-> 4, height |-> 4, top_rows |-> 20]
          /\ bufs \in {[a |-> <<x, y>>, b |-> <<z, 0>>] :
                            x \in UnpackBytes, y \in UnpackBytes, z \in UnpackBytes}

\* main, lines 49-50: unpack both masks.
MaskUnpackCall ==
    /\ tool = "mask_report" /\ pc = "call"
    /\ all_stats' = <<unpack_mask(bufs.a, args.width, args.height),
                      unpack_mask(bufs.b, args.width, args.height)>>
    /\ pc' = "report"
    /\ UNCHANGED <<traceVars, tool, args, files, frames, frame_i, found_any, bufs, out, exit, fatal>>

\* main, lines 52-87: the report on the unpacked masks.
MaskReportCall ==
    /\ tool = "mask_report" /\ pc = "report"
    /\ out' = mask_report(all_stats[1], all_stats[2], args)
    /\ pc' = "done"
    /\ UNCHANGED <<traceVars, frameVars, tool, args, files, exit, fatal>>

\* The frames scanned directly: 1, 2 or 3 pixels, in rows of 1 or 2.
ScanShapes == {[n |-> 1, width |-> 1], [n |-> 2, width |-> 1], [n |-> 2, width |-> 2],
               [n |-> 3, width |-> 2]}

\* find_first_mismatch on a reference frame and the two planes of the other side.
ScanInit ==
    /\ CallInit("find_first_mismatch")
    /\ \E g \in ScanShapes :
        /\ args = [frame |-> 60, width |-> g.width]
        /\ bufs \in PalInputs(g.n)

\* find_first_mismatch(frame, mesen_rgb24, nesium_idx, nesium_emph, inverse, width)
ScanCall ==
    /\ tool = "find_first_mismatch" /\ pc = "call"
    /\ out' = <<find_first_mismatch(args.frame, bufs.rgb, bufs.idx, bufs.emph,
                                    build_inverse_rgb_map, args.width)>>
    /\ pc' = "done"
    /\ UNCHANGED <<traceVars, frameVars, tool, args, files, exit, fatal>>

\* The base colours attenuated directly: black, white, the palette's grey and
\* a colour outside the palette.
EmphasisColours == {<<0, 0, 0>>, <<255, 255, 255>>, <<102, 102, 102>>, <<1, 2, 3>>}

\* apply_emphasis on a base colour, a colour index and an emphasis value; 8 and
\* 15 have bits above the three the function keeps.
EmphasisInit ==
    /\ CallInit("apply_emphasis")
    /\ args \in [rgb : EmphasisColours, color_index : 0..63, emphasis : (0..8) \cup {15}]
    /\ bufs = <<>>

\* apply_emphasis(rgb, color_index, emphasis)
EmphasisCall ==
    /\ tool = "apply_emphasis" /\ pc = "call"
    /\ out' = <<apply_emphasis(args.rgb, args.color_index, args.emphasis)>>
    /\ pc' = "done"
    /\ UNCHANGED <<traceVars, frameVars, tool, args, files, exit, fatal>>

\* build_inverse_rgb_map, then a lookup of the colour a pair generates.
InverseInit ==
    /\ CallInit("build_inverse_rgb_map")
    /\ args \in [idx : 0..63, emph : 0..7]
    /\ bufs = <<>>

\* inverse = build_inverse_rgb_map(); inverse.get(apply_emphasis(base, idx, emph))
InverseCall ==
    /\ tool = "build_inverse_rgb_map" /\ pc = "call"
    /\ out' = <<InverseGet(build_inverse_rgb_map,
                           apply_emphasis(MESEN_2C02_64[args.idx + 1], args.idx, args.emph))>>
    /\ pc' = "done"
    /\ UNCHANGED <<traceVars, frameVars, tool, args, files, exit, fatal>>

\* The values normalised directly: an optional 0x or 0X prefix, leading zeros,
\* then nothing, 1A in both cases, ff, F, the five digits 12345, or "z".
HexPrefixes == {<<>>, <<"0", "x">>, <<"0", "X">>}

HexLeadingZeros == {<<>>, <<"0">>, <<"0", "0", "0">>}

HexDigitRuns == {<<>>, <<"1", "a">>, <<"1", "A">>, <<"f", "f">>, <<"F">>,
                 <<"1", "2", "3", "4", "5">>, <<"z">>}

HexValues == {p \o z \o d : p \in HexPrefixes, z \in HexLeadingZeros, d \in HexDigitRuns}

\* normalize_hex on a value and a width (4 for addresses, 2 for byte values).
NormalizeInit ==
    /\ CallInit("normalize_hex")
    /\ args \in [value : HexValues, width : {2, 4}]
    /\ bufs = <<>>

\* normalize_hex(value, width)
NormalizeCall ==
    /\ tool = "normalize_hex" /\ pc = "call"
    /\ IF normalize_hex_raises(args.value)
       THEN Raise("ValueError") /\ UNCHANGED out
       ELSE /\ out' = <<normalize_hex(args.value, args.width)>>
            /\ pc' = "again"
            /\ UNCHANGED <<exit, fatal>>
    /\ UNCHANGED <<traceVars, frameVars, tool, args, files>>

\* normalize_hex(normalize_hex(value, width), width)
NormalizeAgain ==
    /\ tool = "normalize_hex" /\ pc = "again"
    /\ IF normalize_hex_raises(out[1])
       THEN Raise("ValueError") /\ UNCHANGED out
       ELSE /\ out' = Append(out, normalize_hex(out[1], args.width))
            /\ pc' = "done"
            /\ UNCHANGED <<exit, fatal>>
    /\ UNCHANGED <<traceVars, frameVars, tool, args, files>>

\* Three events of each trace tool, as its parser builds them.
WindowEvents ==
    <<parse_line([tag |-> "PPUREG", fields |-> RegBaseFields]),
      parse_line([tag |-> "PPUREG", fields |-> [RegBaseFields EXCEPT !["value"] = <<"3", "E">>]]),
      parse_line([tag |-> "PPUREG", fields |-> [RegBaseFields EXCEPT !["x"] = <<"1">>]])>>

ApuContextEvents ==
    LET e1 == apu_parse_step(<<>>, [tag |-> "APUTRACE", fields |-> ApuBaseFields], FALSE).events
        e2 == apu_parse_step(e1, [tag |-> "APUTRACE",
                                  fields |-> [ApuBaseFields EXCEPT !["value"] = <<"3", "e">>]],
                             FALSE).events
    IN  apu_parse_step(e2, [tag |-> "APUTRACE", fields |-> ApuBaseFields], FALSE).events

NmiContextEvents ==
    LET e1 == nmi_parse_step(<<>>, [tag |-> "NMITRACE", fields |-> NmiBaseFields]).events
        e2 == nmi_parse_step(e1, [tag |-> "NMITRACE",
                                  fields |-> [NmiBaseFields EXCEPT !["ev"] = "nmi_event"]]).events
    IN  nmi_parse_step(e2, [tag |-> "NMITRACE", fields |-> NmiBaseFields]).events

\* The centres and radii of the direct calls: a centre below, at and past the
\* end of the list; radius 0, radii that clip at either end, and the default 8.
PrintCentres == 0..4

PrintRadii == {0, 1, 2, 8}

\* The context printers on the first n events of a list, a centre and a radius.
PrintInit(t, events) ==
    /\ CallInit(t)
    /\ args \in [center : PrintCentres, radius : PrintRadii]
    /\ bufs \in {SubSeq(events, 1, n) : n \in 0..Len(events)}

\* print_window(label, events, center, radius)
PrintWindowCall ==
    /\ tool = "print_window" /\ pc = "call"
    /\ out' = print_window("mesen", bufs, args.center, args.radius)
    /\ pc' = "done"
    /\ UNCHANGED <<traceVars, frameVars, tool, args, files, exit, fatal>>

\* print_context(name, events, center, radius) of diff_apu_trace and diff_nmi_trace
PrintContextCall ==
    /\ tool \in {"apu.print_context", "nmi.print_context"} /\ pc = "call"
    /\ out' = print_context("mesen", bufs, args.center, args.radius)
    /\ pc' = "done"
    /\ UNCHANGED <<traceVars, frameVars, tool, args, files, exit, fatal>>

CallsInit ==
    \/ PrintInit("print_window", WindowEvents)
    \/ PrintInit("apu.print_context", ApuContextEvents)
    \/ PrintInit("nmi.print_context", NmiContextEvents)
    \/ DiffInit
    \/ DiffWideInit
    \/ MaskCallInit
    \/ ScanInit
    \/ EmphasisInit
    \/ InverseInit
    \/ NormalizeInit

CallsNext ==
    \/ DiffCall
    \/ DiffCallSwapped
    \/ MaskUnpackCall
    \/ MaskReportCall
    \/ ScanCall
    \/ EmphasisCall
    \/ InverseCall
    \/ NormalizeCall
    \/ NormalizeAgain
    \/ PrintWindowCall
    \/ PrintContextCall

Calls == CallsInit /\ [][CallsNext]_vars

\* ------------------------------------------------------------------ claims

SeqSet(seq) == {seq[k] : k \in 1..Len(seq)}

\* A run of the register tool that reached the comparison and returned.
RegCompared == tool = "reg" /\ pc = "done" /\ fatal = "none"

\* The index main() got from first_mismatch, read off what it printed: that of
\* the "first divergence" line, or -1 when "exact match" was printed.
RegReportedIdx ==
    IF \E k \in 1..Len(out) : out[k].kind = "divergence"
    THEN (CHOOSE line \in SeqSet(out) : line.kind = "divergence").index
    ELSE -1

\* The two events at 0-based index i disagree on some field of the set F.
DisagreeOn(F, i) ==
    \E f \in F : mesen_events[i + 1][f] # nesium_events[i + 1][f]

CommonLen == Min(Len(mesen_events), Len(nesium_events))

\* i is the least common index at which the events disagree on F.
LeastDisagreement(F, i) ==
    /\ i \in 0..(CommonLen - 1)
    /\ DisagreeOn(F, i)
    /\ \A j \in 0..(i - 1) : ~DisagreeOn(F, j)

\* C1: first_mismatch(a, b, F) returns a common index i exactly when i is the
\* least common index at which a[i] and b[i] differ on a field of F, and
\* returns -1 exactly when no common index differs and the lengths are equal;
\* identical sequences give -1.
C1_FirstMismatchIsLeast ==
    RegCompared =>
        LET F == SeqSet(RegFields(args))
            idx == RegReportedIdx
        IN  /\ \A i \in 0..(CommonLen - 1) : (idx = i) <=> LeastDisagreement(F, i)
            /\ (idx = -1) <=> ( /\ \A i \in 0..(CommonLen - 1) : ~DisagreeOn(F, i)
                                /\ Len(mesen_events) = Len(nesium_events) )
            /\ (mesen_events = nesium_events => idx = -1)

\* C1 witness: two events each, agreeing at index 0 and differing at index 1.
C1_Witness ==
    /\ RegCompared
    /\ Len(mesen_events) = 2 /\ Len(nesium_events) = 2
    /\ ~DisagreeOn(SeqSet(RegFields(args)), 0)
    /\ RegReportedIdx = 1

\* The (index, field) places at which two equal-length traces differ, over
\* every supported field.
DifferingPlaces ==
    {p \in (0..(CommonLen - 1)) \X valid_fields : DisagreeOn({p[2]}, p[1])}

\* The traces have equal length and differ in exactly one field at one index.
SingleDifference ==
    /\ RegCompared
    /\ Len(mesen_events) = Len(nesium_events)
    /\ Cardinality(DifferingPlaces) = 1

\* C2: for equal-length traces differing in one field f at one index k only,
\* comparing on {f} returns k and comparing on a set without f returns -1.
C2_SingleFieldDifference ==
    SingleDifference =>
        LET p == CHOOSE q \in DifferingPlaces : TRUE
            F == SeqSet(RegFields(args))
        IN  /\ (F = {p[2]} => RegReportedIdx = p[1])
            /\ (p[2] \notin F => RegReportedIdx = -1)

\* C2 witness: the only difference is "value" at index 1, and only "value" is compared.
C2_Witness ==
    /\ SingleDifference
    /\ DifferingPlaces = {<<1, "value">>}
    /\ SeqSet(RegFields(args)) = {"value"}
    /\ RegReportedIdx = 1

\* A run of a trace tool that reached the comparison and returned.
TraceCompared == tool \in TraceTools /\ pc = "done" /\ fatal = "none"

\* The events at 0-based index i agree on what the running tool compares:
\* the selected fields (register tool), or (ev, addr, value) (APU, NMI).
AgreeAt(i) ==
    IF tool = "reg" THEN ~DisagreeOn(SeqSet(RegFields(args)), i)
    ELSE /\ mesen_events[i + 1].ev = nesium_events[i + 1].ev
         /\ mesen_events[i + 1].addr = nesium_events[i + 1].addr
         /\ mesen_events[i + 1].value = nesium_events[i + 1].value

\* The traces differ in length and agree on the whole common prefix.
LengthMismatchOnly ==
    /\ TraceCompared
    /\ Len(mesen_events) # Len(nesium_events)
    /\ \A i \in 0..(CommonLen - 1) : AgreeAt(i)

\* Some printed line reports a divergence at event index i.
ReportsIndex(i) ==
    \E k \in 1..Len(out) : out[k].kind \in {"divergence", "first_mismatch"} /\ out[k].index = i

C4_OrdinalIsPosition ==
    tool \in {"apu", "nmi"} =>
        /\ \A i \in 1..Len(mesen_events) : mesen_events[i].index = i - 1
        /\ \A i \in 1..Len(nesium_events) : nesium_events[i].index = i - 1

\* C4 witness: two lines of the nesium trace were read and one was skipped,
\* after two events of the mesen trace.
C4_Witness ==
    /\ tool = "apu" /\ pc = "load_nesium"
    /\ Len(mesen_events) = 2
    /\ nread = 2 /\ Len(nesium_events) = 1

\* A finished run printed a divergence, a differing pixel or a mismatch.
DivergencePrinted ==
    \E k \in 1..Len(out) :
        \/ out[k].kind \in {"divergence", "first_mismatch", "count_mismatch", "size_mismatch"}
        \/ out[k].kind = "frame_stats" /\ out[k].stats.pixels_diff > 0
        \/ out[k].kind = "mask_diff" /\ out[k].diff_pixels > 0
        \/ out[k].kind = "pal_frame" /\ out[k].mismatch # None

\* C5: every tool exits 0 only when the inputs fully agree and 1 whenever a
\* divergence, differing pixel or mismatch was found.
C5_ExitStatusTellsDivergence ==
    (pc = "done" /\ fatal = "none") => (DivergencePrinted <=> exit = 1)

\* A line of a comparison report on the frame whose files were read last
\* (frame tools) or on the one pair of inputs (mask tool).
ComparedCurrentInput ==
    \E k \in 1..Len(out) :
        \/ out[k].kind = "frame_stats" /\ out[k].stats.frame = frames[frame_i + 1]
        \/ out[k].kind = "pal_frame" /\ out[k].frame = frames[frame_i + 1]
        \/ out[k].kind = "mask_diff"

\* A file the run has read has a byte length other than the expected one.
RgbSizeMismatch ==
    /\ tool = "rgb" /\ files # <<>>
    /\ \E r \in {"mesen", "nesium"} :
        files[r].exists /\ files[r].size # args.width * args.height * BYTES_PER_PIXEL

PalSizeMismatch ==
    /\ tool = "pal" /\ files # <<>>
    /\ \/ files.mesen.exists /\ files.mesen.size # args.width * args.height * RGB24_BPP
       \/ files.idx.exists /\ files.idx.size # args.width * args.height
       \/ files.emph.exists /\ files.emph.size # args.width * args.height

MaskExpectedSize == (args.width * args.height + 7) \div 8

MaskSizeMismatch ==
    /\ tool = "mask" /\ bufs # <<>>
    /\ Len(bufs.a) # MaskExpectedSize \/ Len(bufs.b) # MaskExpectedSize

C7_NoReportBeforeFatal ==
    (pc = "done" /\ fatal \in {"FileNotFoundError", "ValueError", "parser.error"}) => out = <<>>

\* C8: in the trace tools invalid hex in a tagged line never aborts the parse:
\* no run of a trace tool ends with ValueError.
C8_BadHexNeverAborts ==
    tool \in TraceTools => fatal # "ValueError"

\* The events a trace tool has parsed so far.
AllEvents == SeqSet(mesen_events) \cup SeqSet(nesium_events)

\* C9 as stated: in the APU and NMI tools alike no read, write or read_mem
\* event comes from a line that lacks the addr field or the value field.
C9_PairRequiredEverywhere ==
    tool \in {"apu", "nmi"} =>
        \A e \in AllEvents :
            e.ev \in {"read", "write", "read_mem"} =>
                HasKey(e.raw.fields, "addr") /\ HasKey(e.raw.fields, "value")

\* C9 amended: in the NMI tool no read or write event comes from a line that
\* lacks addr or value; in the APU tool no event comes from a line whose addr
\* is missing or empty, while a line that lacks value is kept as an event
\* with value "00".
C9_PairRequirement ==
    /\ tool = "nmi" =>
        \A e \in AllEvents :
            e.ev \in {"read", "write"} =>
                HasKey(e.raw.fields, "addr") /\ HasKey(e.raw.fields, "value")
    /\ tool = "apu" =>
        \A e \in AllEvents :
            /\ HasKey(e.raw.fields, "addr") /\ e.raw.fields["addr"] # <<>>
            /\ ~HasKey(e.raw.fields, "value") => e.value = <<"0", "0">>

\* C9 witness: an APU event parsed from a line without a value field next to
\* one parsed from a complete line.
C9_Witness ==
    /\ tool = "apu"
    /\ Len(mesen_events) = 2
    /\ ~HasKey(mesen_events[1].raw.fields, "value")
    /\ mesen_events[1].value = <<"0", "0">>
    /\ HasKey(mesen_events[2].raw.fields, "value")

\* All six deltas of a FrameDiffStats are zero.
ZeroDeltas(st) ==
    /\ st.mean_abs_r.num = 0 /\ st.mean_abs_g.num = 0 /\ st.mean_abs_b.num = 0
    /\ st.max_abs_r = 0 /\ st.max_abs_g = 0 /\ st.max_abs_b = 0

\* C10: every FrameDiffStats has pixels_diff = 0 exactly when its bbox is None
\* and its three mean and three max absolute deltas are 0.
C10_ZeroDiffIffNoBBox ==
    \A k \in 1..Len(all_stats) :
        (all_stats[k].pixels_diff = 0) <=> (all_stats[k].bbox = NoBBox /\ ZeroDeltas(all_stats[k]))

\* C10 witness: an identical frame followed by a frame with differing pixels
\* whose green channel never differs.
C10_Witness ==
    /\ Len(all_stats) = 2
    /\ all_stats[1].pixels_diff = 0 /\ all_stats[1].bbox = NoBBox
    /\ all_stats[2].pixels_diff = 3 /\ all_stats[2].bbox = <<0, 0, 1, 1>>
    /\ all_stats[2].max_abs_g = 0

\* Both calls of compute_frame_diff, on (a, b) and on (b, a), have returned.
DiffBothWays == tool = "compute_frame_diff" /\ pc = "done"

\* The count a top_deltas list records for the delta d, 0 when it has none.
DeltaCount(top_deltas, d) ==
    IF \E k \in 1..Len(top_deltas) : top_deltas[k][1] = d
    THEN (CHOOSE e \in SeqSet(top_deltas) : e[1] = d)[2]
    ELSE 0

Negated(d) == <<-d[1], -d[2], -d[3]>>

\* The deltas either direction records.
DeltasSeen == {e[1] : e \in SeqSet(out[1].top_deltas) \cup SeqSet(out[2].top_deltas)}

\* C11: compute_frame_diff(A, B) and compute_frame_diff(B, A) have the same
\* pixels_diff, the same three max absolute deltas and the same bbox, and the
\* count of the delta (dr, dg, db) in one equals the count of (-dr, -dg, -db)
\* in the other.
C11_SwapNegatesDeltas ==
    DiffBothWays =>
        /\ out[1].pixels_diff = out[2].pixels_diff
        /\ out[1].max_abs_r = out[2].max_abs_r
        /\ out[1].max_abs_g = out[2].max_abs_g
        /\ out[1].max_abs_b = out[2].max_abs_b
        /\ out[1].bbox = out[2].bbox
        /\ \A d \in DeltasSeen \cup {Negated(e) : e \in DeltasSeen} :
            DeltaCount(out[1].top_deltas, d) = DeltaCount(out[2].top_deltas, Negated(d))

\* C11 witness: a 2x2 pair with two pixels of delta (16, 0, 255), one of delta
\* (-16, 0, 1) and one equal pixel, diffed both ways.
C11_Witness ==
    /\ DiffBothWays
    /\ args.width = 2 /\ args.height = 2
    /\ out[1].pixels_diff = 3
    /\ DeltaCount(out[1].top_deltas, <<16, 0, 255>>) = 2
    /\ DeltaCount(out[1].top_deltas, <<-16, 0, 1>>) = 1
    /\ DeltaCount(out[2].top_deltas, <<-16, 0, -255>>) = 2
    /\ DeltaCount(out[2].top_deltas, <<16, 0, -1>>) = 1

\* The geometry's pixel p differs between the two buffers of a direct call:
\* its three bytes (compute_frame_diff) or its bit (mask analyser).
PixelDiffers(p) ==
    IF tool = "compute_frame_diff"
    THEN \E c \in 1..BYTES_PER_PIXEL :
            bufs.a[p * BYTES_PER_PIXEL + c] # bufs.b[p * BYTES_PER_PIXEL + c]
    ELSE (bufs.a[(p \div 8) + 1] \div (2 ^ (p % 8))) % 2
            # (bufs.b[(p \div 8) + 1] \div (2 ^ (p % 8))) % 2

\* The (x, y) of the differing pixels, row-major.
DifferingXY ==
    {<<p % args.width, p \div args.width>> :
        p \in {q \in 0..(args.width * args.height - 1) : PixelDiffers(q)}}

\* A direct call has returned its bbox.
BBoxReturned ==
    \/ tool = "compute_frame_diff" /\ pc \in {"swap", "done"}
    \/ tool = "mask_report" /\ pc = "done"

\* The bbox lines a mask report holds.
MaskBBoxLines == {l \in SeqSet(out) : l.kind = "mask_bbox"}

\* The rectangle (min_x, min_y, max_x, max_y) is the tightest one around the
\* differing pixels and lies inside the frame.
TightBox(min_x, min_y, max_x, max_y) ==
    /\ \A xy \in DifferingXY : min_x <= xy[1] /\ xy[1] <= max_x /\ min_y <= xy[2] /\ xy[2] <= max_y
    /\ \E xy \in DifferingXY : xy[1] = min_x
    /\ \E xy \in DifferingXY : xy[1] = max_x
    /\ \E xy \in DifferingXY : xy[2] = min_y
    /\ \E xy \in DifferingXY : xy[2] = max_y
    /\ 0 <= min_x /\ min_x <= max_x /\ max_x < args.width
    /\ 0 <= min_y /\ min_y <= max_y /\ max_y < args.height

\* C12: when at least one pixel differs, the bbox of compute_frame_diff and the
\* bbox of the mask analyser are the tightest rectangle around the differing
\* pixels: it contains each of them, each of its four bounds is attained, and
\* it lies inside the frame.
C12_BBoxIsTight ==
    (BBoxReturned /\ DifferingXY # {}) =>
        IF tool = "compute_frame_diff"
        THEN /\ out[1].bbox # NoBBox
             /\ TightBox(out[1].bbox[1], out[1].bbox[2], out[1].bbox[3], out[1].bbox[4])
        ELSE /\ Cardinality(MaskBBoxLines) = 1
             /\ \A l \in MaskBBoxLines : TightBox(l.min_x, l.min_y, l.max_x, l.max_y)

\* C12 witness: a 3x2 frame pair differing exactly at (1, 0) and (2, 1), whose
\* bbox touches neither the left edge nor a whole row alone.
C12_Witness ==
    /\ BBoxReturned /\ tool = "compute_frame_diff"
    /\ args.width = 3 /\ args.height = 2
    /\ DifferingXY = {<<1, 0>>, <<2, 1>>}
    /\ out[1].bbox = <<1, 0, 2, 1>>

\* find_first_mismatch has returned from a direct call.
ScanReturned == tool = "find_first_mismatch" /\ pc = "done"

\* The pixels of the scanned frame, 0-based.
ScanPixels == 0..(Len(bufs.idx) - 1)

\* The reference RGB of pixel i and the pair the other side reports for it.
RefRGB(i) == <<bufs.rgb[3 * i + 1], bufs.rgb[3 * i + 2], bufs.rgb[3 * i + 3]>>

ReportedPair(i) == <<bufs.idx[i + 1] % 64, bufs.emph[i + 1] % 8>>

\* The (index, emphasis) pairs that generate each reference colour of the
\* scanned frames, straight from the palette and apply_emphasis.
GeneratingPairs ==
    [rgb \in PalMesenPixels |->
        {p \in (0..63) \X (0..7) : apply_emphasis(MESEN_2C02_64[p[1] + 1], p[1], p[2]) = rgb}]

UnknownAt(i) == GeneratingPairs[RefRGB(i)] = {}

MismatchAt(i) == ~UnknownAt(i) /\ ReportedPair(i) \notin GeneratingPairs[RefRGB(i)]

\* The index of no generating pair is the reported index.
IndexMismatchAt(i) ==
    MismatchAt(i) /\ \A p \in GeneratingPairs[RefRGB(i)] : p[1] # ReportedPair(i)[1]

EmphasisMismatchAt(i) ==
    MismatchAt(i) /\ \E p \in GeneratingPairs[RefRGB(i)] : p[1] = ReportedPair(i)[1]

\* The pixels scanned before the returned mismatch (all of them when none is).
ScannedBefore ==
    IF out[1].mismatch = None THEN ScanPixels
    ELSE {j \in ScanPixels : j < out[1].mismatch.pixel_index}

\* C13: find_first_mismatch returns the lowest row-major pixel whose reference
\* RGB has a generating pair and whose reported (idx & 0x3F, emph & 0x07) is
\* not one of them; a pixel of unknown colour is never returned and only
\* counts as unknown; with no such pixel the result is no mismatch.
C13_FirstMismatchIsLowest ==
    ScanReturned =>
        /\ IF \E i \in ScanPixels : MismatchAt(i)
           THEN /\ out[1].mismatch # None
                /\ MismatchAt(out[1].mismatch.pixel_index)
                /\ \A j \in ScanPixels : j < out[1].mismatch.pixel_index => ~MismatchAt(j)
                /\ out[1].mismatch.x = out[1].mismatch.pixel_index % args.width
                /\ out[1].mismatch.y = out[1].mismatch.pixel_index \div args.width
                /\ out[1].mismatch.mesen_rgb = RefRGB(out[1].mismatch.pixel_index)
                /\ <<out[1].mismatch.actual_idx, out[1].mismatch.actual_emph>>
                        = ReportedPair(out[1].mismatch.pixel_index)
           ELSE out[1].mismatch = None
        /\ out[1].unknown_colors = Cardinality({j \in ScannedBefore : UnknownAt(j)})

\* C13 witness: three pixels, the first of unknown colour, the second matching
\* through the masked bits (idx 0x41, emph 0x09), the third an emphasis mismatch.
C13_Witness ==
    /\ ScanReturned
    /\ Len(bufs.idx) = 3
    /\ UnknownAt(0)
    /\ ~UnknownAt(1) /\ ~MismatchAt(1) /\ bufs.idx[2] = 65 /\ bufs.emph[2] = 9
    /\ MismatchAt(2)
    /\ out[1].mismatch # None
    /\ out[1].mismatch.pixel_index = 2
    /\ out[1].unknown_colors = 1

\* C14: the reason of the returned mismatch is palette_index exactly when the
\* reported index is the index of no candidate, and emphasis_bits exactly when
\* it is the index of some candidate while the pair is no candidate; exactly
\* one of the two holds.
C14_ReasonClassifies ==
    (ScanReturned /\ out[1].mismatch # None) =>
        LET m == out[1].mismatch
        IN  /\ m.reason \in {"palette_index", "emphasis_bits"}
            /\ (m.reason = "palette_index") <=> IndexMismatchAt(m.pixel_index)
            /\ (m.reason = "emphasis_bits") <=> EmphasisMismatchAt(m.pixel_index)
            /\ IndexMismatchAt(m.pixel_index) # EmphasisMismatchAt(m.pixel_index)

\* C14 witness: colour 0x01 under emphasis 1 reported as index 0x01 with
\* emphasis 0: the index is a candidate's, the pair is not.
C14_Witness ==
    /\ ScanReturned /\ out[1].mismatch # None
    /\ out[1].mismatch.mesen_rgb = <<0, 35, 114>>
    /\ out[1].mismatch.actual_idx = 1 /\ out[1].mismatch.actual_emph = 0
    /\ out[1].mismatch.reason = "emphasis_bits"

\* C15: the three counters returned with a first mismatch at pixel i count
\* only pixels of index below i; pixel i itself is in none of them.
C15_CountersStopBeforeMismatch ==
    (ScanReturned /\ out[1].mismatch # None) =>
        /\ out[1].unknown_colors = Cardinality({j \in ScannedBefore : UnknownAt(j)})
        /\ out[1].idx_mismatches = Cardinality({j \in ScannedBefore : IndexMismatchAt(j)})
        /\ out[1].emph_mismatches = Cardinality({j \in ScannedBefore : EmphasisMismatchAt(j)})

\* apply_emphasis has returned from a direct call.
EmphasisReturned == tool = "apply_emphasis" /\ pc = "done"

\* C16: apply_emphasis returns the base RGB unchanged when the 3-bit emphasis
\* mask is 0, and for every mask 0..7 when the low nibble of the colour index
\* is 0x0E or 0x0F.
C16_EmphasisIdentityCases ==
    (EmphasisReturned /\ args.emphasis \in 0..7) =>
        ((args.emphasis = 0 \/ args.color_index % 16 \in {14, 15}) => out[1] = args.rgb)

\* C16 witness: white at index 0x2E under emphasis 7 comes back unchanged,
\* where index 0x2D would have been attenuated.
C16_Witness ==
    /\ EmphasisReturned
    /\ args.rgb = <<255, 255, 255>> /\ args.color_index = 46 /\ args.emphasis = 7
    /\ out[1] = <<255, 255, 255>>

\* The lookup of a pair's generated colour has returned.
InverseReturned == tool = "build_inverse_rgb_map" /\ pc = "done"

\* C17: for every colour index 0..63 and emphasis 0..7 the candidate list the
\* inverse map stores under apply_emphasis(palette[index], index, emphasis)
\* contains the pair (index, emphasis).
C17_InverseMapRoundTrip ==
    InverseReturned => \E k \in 1..Len(out[1]) : out[1][k] = <<args.idx, args.emph>>

\* C17 witness: the pair (0x01, 6), whose colour the pair (0x01, 1) generates
\* too, is found second in its list.
C17_Witness ==
    /\ InverseReturned
    /\ args.idx = 1 /\ args.emph = 6
    /\ out[1] = << <<1, 1>>, <<1, 6>> >>

\* Both masks of a direct call are unpacked.
MaskUnpacked == tool = "mask_report" /\ pc \in {"report", "done"}

\* Bit (p mod 8) of byte (p div 8) of a mask, least-significant bit first.
MaskBit(data, p) == (data[(p \div 8) + 1] \div (2 ^ (p % 8))) % 2

\* The unpacked pixels are the mask's bits in row-major order, one per pixel.
UnpackedFrom(pixels, data) ==
    /\ Len(pixels) = args.width * args.height
    /\ \A p \in 0..(args.width * args.height - 1) : pixels[p + 1] = MaskBit(data, p)

\* The two masks differ in the bit of pixel 5 and in no other bit.
DifferOnlyAtPixel5 ==
    /\ Len(bufs.a) = Len(bufs.b)
    /\ \A p \in 0..(8 * Len(bufs.a) - 1) : (MaskBit(bufs.a, p) # MaskBit(bufs.b, p)) <=> (p = 5)

\* C18: unpack_mask turns a mask of the expected length into width*height
\* pixels, pixel p being bit (p mod 8) of byte (p div 8), whatever the unused
\* high bits of the last byte; and two masks differing only in the bit of
\* pixel 5 are reported with one differing pixel whose bbox is the single
\* column 5 mod width and row 5 div width.
C18_UnpackLsbFirst ==
    /\ MaskUnpacked =>
        /\ UnpackedFrom(all_stats[1], bufs.a)
        /\ UnpackedFrom(all_stats[2], bufs.b)
    /\ (tool = "mask_report" /\ pc = "done" /\ DifferOnlyAtPixel5) =>
        /\ out[1].kind = "mask_diff" /\ out[1].diff_pixels = 1
        /\ out[2].kind = "mask_bbox"
        /\ out[2].min_x = 5 % args.width /\ out[2].max_x = 5 % args.width
        /\ out[2].min_y = 5 \div args.width /\ out[2].max_y = 5 \div args.width

\* C18 witness: 3x2 masks 0x60 and 0x40, equal in the unused bit 6 and
\* different at pixel 5 only, reported at column 2 of row 1.
C18_Witness ==
    /\ tool = "mask_report" /\ pc = "done"
    /\ args.width = 3 /\ args.height = 2
    /\ bufs = [a |-> <<96>>, b |-> <<64>>]
    /\ DifferOnlyAtPixel5
    /\ all_stats[1] = <<0, 0, 0, 0, 0, 1>>
    /\ out[1].diff_pixels = 1
    /\ out[2].min_x = 2 /\ out[2].min_y = 1

\* normalize_hex has returned from its first direct call.
NormalizeReturned == tool = "normalize_hex" /\ pc \in {"again", "done"} /\ fatal = "none"

UpperHexDigits == {"0","1","2","3","4","5","6","7","8","9","A","B","C","D","E","F"}

\* The digits of the value, after its optional 0x prefix.
DigitsOf(value) ==
    IF Len(value) >= 2 /\ value[1] = "0" /\ value[2] \in {"x", "X"}
    THEN SubSeq(value, 3, Len(value)) ELSE value

\* The number the value denotes: its digits in base 16, whatever their case,
\* with leading zeros; no digits at all denote zero.
RECURSIVE NumberOf(_)
NumberOf(digits) ==
    IF digits = <<>> THEN 0
    ELSE 16 * NumberOf(SubSeq(digits, 1, Len(digits) - 1)) + DigitVal[digits[Len(digits)]]

\* The text is upper-case hex digits only and denotes the same number as the
\* value; together with its length this fixes the text.
CanonicalDigits(text) ==
    /\ \A k \in 1..Len(text) : text[k] \in UpperHexDigits
    /\ NumberOf(text) = NumberOf(DigitsOf(args.value))

\* Normalising the result again returns it unchanged.
NormalizeIdempotent == pc = "done" => out[2] = out[1]

\* C19 as stated: normalize_hex returns exactly `width` upper-case hex digits,
\* the same for every spelling of a number, and is idempotent.
C19_ExactlyWidthDigits ==
    NormalizeReturned =>
        /\ Len(out[1]) = args.width
        /\ CanonicalDigits(out[1])
        /\ NormalizeIdempotent

\* C19 amended: normalize_hex returns upper-case hex digits denoting the
\* value's number, the same for every spelling of it: exactly `width` digits
\* when the number is below 16^width, and otherwise all the digits of the
\* number, more than `width` and without a leading zero; and it is idempotent.
C19_CanonicalAtLeastWidth ==
    NormalizeReturned =>
        /\ CanonicalDigits(out[1])
        /\ IF NumberOf(DigitsOf(args.value)) < 16 ^ args.width
           THEN Len(out[1]) = args.width
           ELSE Len(out[1]) > args.width /\ out[1][1] # "0"
        /\ NormalizeIdempotent

\* C19 witness: "0X00012345" normalised to width 4 keeps its five digits, twice.
C19_Witness ==
    /\ NormalizeReturned /\ pc = "done"
    /\ args.value = <<"0", "X", "0", "0", "0", "1", "2", "3", "4", "5">>
    /\ args.width = 4
    /\ out = << <<"1", "2", "3", "4", "5">>, <<"1", "2", "3", "4", "5">> >>

\* A context printer has returned from a direct call.
Printed ==
    /\ tool \in {"print_window", "apu.print_context", "nmi.print_context"}
    /\ pc = "done"

\* The lines printed after the header, one per event.
EventLines == Tail(out)

\* The indices of the list within `radius` of the centre.
InWindow ==
    {i \in 0..(Len(bufs) - 1) : args.center - args.radius <= i /\ i <= args.center + args.radius}

\* C20: for any event list, centre c >= 0 and radius r >= 0, the context
\* printers print exactly the events of index max(0, c - r) to
\* min(len - 1, c + r), in order and once each, never reach outside
\* [0, len), and mark an event if and only if its index is c.
C20_WindowIsClamped ==
    Printed =>
        /\ Len(EventLines) = Cardinality(InWindow)
        /\ \A k \in 1..Len(EventLines) :
            /\ EventLines[k].i = Max(0, args.center - args.radius) + k - 1
            /\ EventLines[k].i \in InWindow
            /\ EventLines[k].i <= Min(Len(bufs) - 1, args.center + args.radius)
            /\ EventLines[k].event = bufs[EventLines[k].i + 1]
            /\ EventLines[k].mark <=> (EventLines[k].i = args.center)
        /\ args.center >= Len(bufs) => \A k \in 1..Len(EventLines) : ~EventLines[k].mark

\* C20 witness: two events, the centre just past the end, radius 1: only the
\* last event is printed, unmarked.
C20_Witness ==
    /\ Printed /\ tool = "print_window"
    /\ Len(bufs) = 2 /\ args.center = 2 /\ args.radius = 1
    /\ Len(EventLines) = 1
    /\ EventLines[1].i = 1 /\ ~EventLines[1].mark
    /\ EventLines[1].event = bufs[2]

\* compute_frame_diff has returned from the direct call on (a, b).
DiffReturned == tool = "compute_frame_diff" /\ pc \in {"swap", "done"}

\* The pixels of the frame, row-major, and the delta b - a at each.
FramePixels == 0..(args.width * args.height - 1)

DeltaAt(p) ==
    <<bufs.b[3 * p + 1] - bufs.a[3 * p + 1],
      bufs.b[3 * p + 2] - bufs.a[3 * p + 2],
      bufs.b[3 * p + 3] - bufs.a[3 * p + 3]>>

DifferingPixels == {p \in FramePixels : DeltaAt(p) # <<0, 0, 0>>}

\* The whole histograms: differing pixels per delta, per row and per column.
PixelsOfDelta(d) == Cardinality({p \in DifferingPixels : DeltaAt(p) = d})

PixelsOfRow(y) == Cardinality({p \in DifferingPixels : p \div args.width = y})

PixelsOfCol(x) == Cardinality({p \in DifferingPixels : p % args.width = x})

DeltasPresent == {DeltaAt(p) : p \in DifferingPixels}

RowsPresent == {p \div args.width : p \in DifferingPixels}

ColsPresent == {p % args.width : p \in DifferingPixels}

\* Tie-breaks: ascending index, ascending triple, first occurrence in the scan.
IndexBefore(i, j) == i < j

TripleBefore(d, e) ==
    \/ d[1] < e[1]
    \/ d[1] = e[1] /\ d[2] < e[2]
    \/ d[1] = e[1] /\ d[2] = e[2] /\ d[3] < e[3]

FirstPixelOf(d) == CHOOSE p \in DifferingPixels :
                        DeltaAt(p) = d /\ \A q \in DifferingPixels : DeltaAt(q) = d => p <= q

SeenBefore(d, e) == FirstPixelOf(d) < FirstPixelOf(e)

\* The list is the top ten of the keys present, under descending count and
\* the tie-break Prior: at most ten entries, each a present key with its own
\* non-zero count, in rank order, and no omitted key outranks an included one
\* (keys are omitted only from a full list).
IsTopTen(list, present, Count(_), Prior(_, _)) ==
    LET Outranks(u, v) == Count(u) > Count(v) \/ (Count(u) = Count(v) /\ Prior(u, v))
    IN  /\ Len(list) <= 10
        /\ \A k \in 1..Len(list) :
            /\ list[k][1] \in present
            /\ list[k][2] = Count(list[k][1])
            /\ list[k][2] > 0
        /\ \A j, k \in 1..Len(list) : j < k => Outranks(list[j][1], list[k][1])
        /\ \A u \in present :
            (\A k \in 1..Len(list) : list[k][1] # u) =>
                /\ Len(list) = 10
                /\ \A k \in 1..Len(list) : ~Outranks(u, list[k][1])

\* C21 as stated: top_deltas, top_rows and top_cols each hold at most ten
\* entries of non-zero count, by descending count and, among equal counts, by
\* ascending row index, column index or delta triple; no omitted entry
\* outranks an included one.
C21_TopTenByAscendingKey ==
    DiffReturned =>
        /\ IsTopTen(out[1].top_rows, RowsPresent, PixelsOfRow, IndexBefore)
        /\ IsTopTen(out[1].top_cols, ColsPresent, PixelsOfCol, IndexBefore)
        /\ IsTopTen(out[1].top_deltas, DeltasPresent, PixelsOfDelta, TripleBefore)

\* C21 amended: top_rows and top_cols are as stated; top_deltas holds at most
\* ten deltas of non-zero count by descending count, and among equal counts in
\* the order in which the deltas first occur in the row-major scan; no omitted
\* entry outranks an included one under these orders.
C21_TopTenDeltasByFirstSeen ==
    DiffReturned =>
        /\ IsTopTen(out[1].top_rows, RowsPresent, PixelsOfRow, IndexBefore)
        /\ IsTopTen(out[1].top_cols, ColsPresent, PixelsOfCol, IndexBefore)
        /\ IsTopTen(out[1].top_deltas, DeltasPresent, PixelsOfDelta, SeenBefore)

\* C21 witness: a 12x1 pair whose eleven deltas fall from 6 to -5, one pixel
\* each: the ten first seen are kept, in the order seen, and column 11 and
\* delta -5 are left out.
C21_Witness ==
    /\ DiffReturned
    /\ args.width = 12 /\ args.height = 1
    /\ Cardinality(DeltasPresent) = 11 /\ Cardinality(ColsPresent) = 11
    /\ Len(out[1].top_deltas) = 10
    /\ out[1].top_deltas[1] = << <<6, 0, 0>>, 1 >>
    /\ out[1].top_deltas[10] = << <<-4, 0, 0>>, 1 >>
    /\ Len(out[1].top_cols) = 10
    /\ out[1].top_cols[10] = <<10, 1>>
    /\ out[1].top_rows = << <<0, 11>> >>

\* The base parse_line passes to get_int for each numeric field.
FieldBase(f) == IF f \in {"cpu_cycle", "frame", "scanline", "dot"} THEN 10 ELSE 16

\* The line the event was parsed from has no field f, or a text for f that
\* int() rejects.
NoValue(e, f) ==
    \/ ~HasKey(e.raw.fields, f)
    \/ IntRaises(e.raw.fields[f], FieldBase(f))

Absent(e, f) == ~HasKey(e.raw.fields, f)

Unparsable(e, f) == HasKey(e.raw.fields, f) /\ IntRaises(e.raw.fields[f], FieldBase(f))

SameText(d, e, f) ==
    /\ HasKey(d.raw.fields, f) /\ HasKey(e.raw.fields, f)
    /\ d.raw.fields[f] = e.raw.fields[f]

\* The two traces have the same length and, at every index and on every
\* selected field, the two lines either carry the same text or both have no
\* value.
DifferOnlyByNoValue(F) ==
    /\ Len(mesen_events) = Len(nesium_events)
    /\ \A i \in 1..Len(mesen_events) : \A f \in F :
        \/ SameText(mesen_events[i], nesium_events[i], f)
        \/ NoValue(mesen_events[i], f) /\ NoValue(nesium_events[i], f)

\* C22: an absent numeric field and an unparsable one both become -1; two
\* events at the same index never disagree on a selected field that neither
\* has a value for, and two traces that differ only in this way are reported
\* as an exact match.
C22_AbsentAndUnparsableAlike ==
    RegCompared =>
        LET F == SeqSet(RegFields(args))
        IN  /\ \A e \in SeqSet(mesen_events) \cup SeqSet(nesium_events) :
                \A f \in valid_fields : NoValue(e, f) => e[f] = -1
            /\ \A i \in 0..(CommonLen - 1) :
                ~(\E f \in F :
                    /\ NoValue(mesen_events[i + 1], f)
                    /\ NoValue(nesium_events[i + 1], f)
                    /\ RegReportedIdx = i
                    /\ ~DisagreeOn(F \ {f}, i))
            /\ DifferOnlyByNoValue(F) =>
                /\ RegReportedIdx = -1
                /\ exit = 0
                /\ \E k \in 1..Len(out) : out[k].kind = "match"

\* C22 witness: the mesen line has no addr, the nesium line has addr=zz, addr
\* is selected, and the run reports an exact match.
C22_Witness ==
    /\ RegCompared
    /\ "addr" \in SeqSet(RegFields(args))
    /\ Len(mesen_events) = 1 /\ Len(nesium_events) = 1
    /\ Absent(mesen_events[1], "addr")
    /\ Unparsable(nesium_events[1], "addr")
    /\ mesen_events[1].addr = -1 /\ nesium_events[1].addr = -1
    /\ exit = 0
    /\ \E k \in 1..Len(out) : out[k].kind = "match"
====
